---------------------------- MODULE Spec2Model ----------------------------
(***************************************************************************)
(* Model of the X5GON search API request handlers.                         *)
(*                                                                         *)
(*   GET /api/v1/oer_materials        src/src/routes/v1/oer_materials.ts   *)
(*   GET /api/v1/recommend/materials  src/src/routes/v1/recommend.js       *)
(*   GET /api/v1/recommend/bundles    src/unnamed/part_004                 *)
(*   POST /api/v1/oer_materials       src/src/routes/v1/oer_materials.ts   *)
(*   PATCH, DELETE /api/v1/oer_materials/:material_id      (same file)     *)
(*   bulk load script (populate)      src/unnamed/part_002                 *)
(*   error middleware                 src/unnamed/part_006,                *)
(*                                    src/src/middleware/logging.js        *)
(*                                                                         *)
(* A handler is an async function: it runs from one await to the next as   *)
(* one step.  Every slot of Slots holds one request in flight together     *)
(* with the handler's local variables, the external calls it has issued,   *)
(* the errors it has handed to next() and the responses it has sent.       *)
(* The bulk load script is a process of its own, held in `load`.           *)
(***************************************************************************)
EXTENDS Integers, Sequences, FiniteSets, TLC

VARIABLES h, setLanguages, startup, index, load

vars == <<h, setLanguages, startup, index, load>>

----------------------------------------------------------------------------
(* Bounds of the model *)

\* requested limits range over -MaxNegLimit..MaxLimitReq (and absent, NaN)
MaxNegLimit == 2
MaxLimitReq == 101
\* requested pages range over -MaxNegPage..MaxPage (and absent, NaN)
MaxNegPage == 2
MaxPage == 3
\* total-hit counts reported by the index engine: 0..MaxTotalHits
MaxTotalHits == 41
\* page counts reported by the image provider: 0..2 and 99..MaxPageCount
MaxPageCount == 101
\* license filters are lists of at most MaxLicenses short names
MaxLicenses == 2
\* material ids range over 0..MaxMaterialId (and NaN); the index holds 1
MaxMaterialId == 2
\* the bulk load reads at most MaxBatches batches of 1..MaxBatchRows rows
MaxBatches == 2
MaxBatchRows == 2

----------------------------------------------------------------------------
(* JavaScript values *)

\* an optional number after express-validator's toInt(): absent, NaN or an int
Absent == [k |-> "absent"]
NaN == [k |-> "nan"]
Num(n) == [k |-> "int", v |-> n]
Null == [k |-> "null"]

\* !x for an optional number: undefined, NaN and 0 are falsy
Falsy(x) == x.k # "int" \/ x.v = 0

\* Array.prototype.includes
Includes(arr, x) == \E i \in 1..Len(arr) : arr[i] = x

\* FilterNe dropping only the first entry equal to x
RECURSIVE FilterNe_First(_, _)
FilterNe_First(arr, x) ==
    IF arr = <<>> THEN <<>>
    ELSE IF Head(arr) # x THEN <<Head(arr)>> \o FilterNe_First(Tail(arr), x)
         ELSE Tail(arr)

\* Array.prototype.filter with the predicate (e) => e !== x
RECURSIVE FilterNe(_, _)
FilterNe(arr, x) ==
    IF arr = <<>> THEN <<>>
    ELSE IF Head(arr) # x THEN <<Head(arr)>> \o FilterNe(Tail(arr), x)
         ELSE FilterNe(Tail(arr), x)

\* Math.ceil(n / d) for integers n >= 0, d > 0
Ceil(n, d) == IF n % d = 0 THEN n \div d ELSE (n \div d) + 1

\* String.prototype.split(sep) on a string held as a sequence of characters
RECURSIVE SplitAcc(_, _, _)
SplitAcc(s, sep, cur) ==
    IF s = <<>> THEN <<cur>>
    ELSE IF Head(s) = sep THEN <<cur>> \o SplitAcc(Tail(s), sep, <<>>)
         ELSE SplitAcc(Tail(s), sep, Append(cur, Head(s)))

Split(s, sep) == SplitAcc(s, sep, <<>>)

\* Array.prototype.join(sep): the entries with sep between neighbours, held
\* as the sequence of its pieces; the empty array gives the empty string
RECURSIVE Join(_, _)
Join(arr, sep) ==
    IF arr = <<>> THEN <<>>
    ELSE IF Len(arr) = 1 THEN <<Head(arr)>>
    ELSE <<Head(arr), sep>> \o Join(Tail(arr), sep)

----------------------------------------------------------------------------
(* Program constants *)

DEFAULT_LIMIT == 20
MAX_LIMIT == 100
DEFAULT_PAGE == 1
\* the image branch caps the provider's page count and assumes 20 per page
CC_MAX_PAGES == 100
CC_PAGE_HITS == 20
INTERNAL_ERROR == "Internal server error"
DEFAULT_DISCLAIMER ==
    "The usage of the corresponding material is in all cases under the sole responsibility of the user."

\* the group tokens recognised by each route
SearchGroups == {"all", "text", "video", "audio", "image"}
RecommendGroups == {"all", "text", "video", "audio"}
ContentExtensions == {"plain", "webvtt", "dfxp"}


----------------------------------------------------------------------------
(* Pagination, GET /oer_materials *)

\* SearchLimit with the upper clamp going to MAX_LIMIT instead of the default
SearchLimit_Max(queryLimit) ==
    IF Falsy(queryLimit) THEN DEFAULT_LIMIT
    ELSE IF queryLimit.v <= 0 THEN DEFAULT_LIMIT
    ELSE IF queryLimit.v >= MAX_LIMIT THEN MAX_LIMIT
    ELSE queryLimit.v

\* const limit = !queryLimit ? DEFAULT : queryLimit <= 0 ? DEFAULT
\*               : queryLimit >= MAX_LIMIT ? DEFAULT : queryLimit
SearchLimit(queryLimit) ==
    IF Falsy(queryLimit) THEN DEFAULT_LIMIT
    ELSE IF queryLimit.v <= 0 THEN DEFAULT_LIMIT
    ELSE IF queryLimit.v >= MAX_LIMIT THEN DEFAULT_LIMIT
    ELSE queryLimit.v

\* const page = !queryPage ? DEFAULT_PAGE : queryPage
SearchPage(queryPage) ==
    IF Falsy(queryPage) THEN DEFAULT_PAGE ELSE queryPage.v

\* const from = (page - 1) * size
From(page, size) == (page - 1) * size

\* TotalPages with Math.floor in place of Math.ceil
TotalPages_Floor(total, size) == total \div size

\* Math.ceil(output.hits.total.value / size)
TotalPages(total, size) == Ceil(total, size)

\* { ...req.query, ...page && { page: page - 1 } }
PrevQuery(query, page) ==
    IF page # 0 THEN [query EXCEPT !.page = Num(page - 1)] ELSE query

\* { ...req.query, ...page && { page: page + 1 } }
NextQuery(query, page) ==
    IF page # 0 THEN [query EXCEPT !.page = Num(page + 1)] ELSE query

\* `${BASE_URL}?${querystring.stringify(q)}`
Url(base, q) == [k |-> "url", base |-> base, params |-> q]

\* PrevPage with the test page > 0
PrevPage_Off(base, query, page) ==
    IF page > 0 THEN Url(base, PrevQuery(query, page)) ELSE Null

\* page - 1 > 0 ? url(prevQuery) : null
PrevPage(base, query, page) ==
    IF page - 1 > 0 THEN Url(base, PrevQuery(query, page)) ELSE Null

\* totalPages >= page + 1 ? url(nextQuery) : null
NextPage(base, query, page, totalPages) ==
    IF totalPages >= page + 1 THEN Url(base, NextQuery(query, page)) ELSE Null

----------------------------------------------------------------------------
(* Query compilation, GET /oer_materials *)

\* a request's `types` is held as the list of its comma-separated tokens;
\* the empty list is the absent (null) value
IsGroup(types, groups) == Len(types) = 1 /\ types[1] \in groups

\* Typegroup that does not know the "image" group
Typegroup_NoImage(types, groups) ==
    IF types # <<>> /\ IsGroup(types, groups \ {"image"})
    THEN (IF types[1] = "all" THEN "" ELSE types[1])
    ELSE ""

\* typegroup: the group token, null ("") for "all" and for extension lists
Typegroup(types, groups) ==
    IF types # <<>> /\ IsGroup(types, groups)
    THEN (IF types[1] = "all" THEN "" ELSE types[1])
    ELSE ""

\* Filetypes computed for a group token as well
Filetypes_NoElse(types, groups) ==
    IF types # <<>> /\ Len(types) > 0
    THEN [i \in 1..Len(types) |-> <<".*.", types[i]>>]
    ELSE <<>>

\* filetypes: types.split(",").map(t => `.*\.${t}`).join("|"), held as the
\* list of alternatives; the empty list is the undefined value
Filetypes(types, groups) ==
    IF types # <<>> /\ IsGroup(types, groups) THEN <<>>
    ELSE IF types # <<>> /\ Len(types) > 0
         THEN [i \in 1..Len(types) |-> <<".*.", types[i]>>]
         ELSE <<>>

\* the clauses the handlers push on their filter lists
Regexp(field, value) == [op |-> "regexp", field |-> field, value |-> value]
Term(field, value) == [op |-> "term", field |-> field, value |-> value]
Terms(field, value) == [op |-> "terms", field |-> field, value |-> value]
Exists(field) == [op |-> "exists", field |-> field]

\* if (licenses && licenses.length && !licenses.includes("cc")) push terms
LicenseTerms(licenses) ==
    IF licenses # <<>> /\ Len(licenses) # 0 /\ ~Includes(licenses, "cc")
    THEN <<Terms("license.short_name", licenses)>> ELSE <<>>

\* LicenseExists without the test for the "cc" sentinel
LicenseExists_Any(licenses) ==
    IF licenses # <<>> /\ Len(licenses) # 0
    THEN <<Exists("license.url")>> ELSE <<>>

\* if (licenses && licenses.length && licenses.includes("cc")) push exists
LicenseExists(licenses) ==
    IF licenses # <<>> /\ Len(licenses) # 0 /\ Includes(licenses, "cc")
    THEN <<Exists("license.url")>> ELSE <<>>

\* the `filters` list of GET /oer_materials, in push order
SearchFilters(q) ==
    LET filetypes == Filetypes(q.types, SearchGroups)
        typegroup == Typegroup(q.types, SearchGroups)
    IN  (IF filetypes # <<>> THEN <<Regexp("material_url", filetypes)>> ELSE <<>>)
     \o (IF typegroup # "" THEN <<Term("type", typegroup)>> ELSE <<>>)
     \o LicenseTerms(q.licenses)
     \o (IF q.provider_ids # <<>> THEN <<Terms("provider_id", q.provider_ids)>> ELSE <<>>)
     \o (IF q.languages # <<>> THEN <<Terms("language", q.languages)>> ELSE <<>>)
     \o LicenseExists(q.licenses)
     \o (IF q.sort_by = "creation_date" THEN <<Exists("creation_date")>> ELSE <<>>)

\* GetContent without the test for the recognised extensions
GetContent_Any(q) == q.content_extension # ""

\* getContent: set only when a recognised content extension is requested
GetContent(q) ==
    q.content_extension # "" /\ q.content_extension \in ContentExtensions

\* nestedContentsMust of GET /oer_materials, in push order
SearchNestedContentsMust(q) ==
    (IF q.content_languages # <<>>
     THEN <<Terms("contents.language", q.content_languages)>> ELSE <<>>)
 \o (IF GetContent(q)
     THEN <<Term("contents.extension", q.content_extension)>>
     ELSE <<Term("contents.extension", "plain")>>)

\* sortBy of GET /oer_materials
SortBy(q) ==
    (IF q.sort_by = "creation_date" THEN <<"creation_date">>
     ELSE IF q.sort_by = "retrieved_date" THEN <<"retrieved_date">>
     ELSE <<>>) \o <<"_score">>

\* esQuery of GET /oer_materials; q is req.query after the pagination update
EsQuery(q, from, size) ==
    LET filters == SearchFilters(q) IN
    [ from |-> from,
      size |-> size,
      source_excludes |-> ~GetContent(q),
      has_must |-> GetContent(q),
      must |-> IF GetContent(q) THEN SearchNestedContentsMust(q) ELSE <<>>,
      should_text |-> q.text,
      should |-> <<>>,
      has_filter |-> Len(filters) > 0,
      filter |-> IF Len(filters) > 0 THEN filters ELSE <<>>,
      has_sort |-> q.sort_by # "",
      sort |-> IF q.sort_by # "" THEN SortBy(q) ELSE <<>>,
      must_not |-> <<>>,
      collapse |-> "",
      min_score |-> 5 ]

----------------------------------------------------------------------------
(* Result formatting *)

Undefined == [k |-> "undefined"]
Arr(a) == [k |-> "arr", v |-> a]
Str(a) == [k |-> "str", v |-> a]

\* String.prototype.toLowerCase on a string held as a sequence of characters
UpperChars == <<"A", "B", "C", "V", "L">>
LowerChars == <<"a", "b", "c", "v", "l">>
ToLowerChar(c) ==
    IF \E i \in 1..Len(UpperChars) : UpperChars[i] = c
    THEN LowerChars[CHOOSE i \in 1..Len(UpperChars) : UpperChars[i] = c]
    ELSE c
ToLowerCase(str) == [i \in 1..Len(str) |-> ToLowerChar(str[i])]

\* SliceTo that stops one element early
SliceTo_Short(arr, n) == SubSeq(arr, 1, IF n - 1 < Len(arr) THEN n - 1 ELSE Len(arr))

\* Array.prototype.slice(0, n) for n > 0
SliceTo(arr, n) == SubSeq(arr, 1, IF n < Len(arr) THEN n ELSE Len(arr))

\* FilterExtension that keeps every entry
FilterExtension_All(arr, ext) == arr

\* Array.prototype.filter with the predicate (c) => c.extension === ext
RECURSIVE FilterExtension(_, _)
FilterExtension(arr, ext) ==
    IF arr = <<>> THEN <<>>
    ELSE IF Head(arr).extension = ext
         THEN <<Head(arr)>> \o FilterExtension(Tail(arr), ext)
         ELSE FilterExtension(Tail(arr), ext)

\* materialFormat throws a TypeError when getContent is set and the hit
\* carries no contents
MaterialFormatThrows(hit, getContent) ==
    getContent /\ hit.contents.k # "arr"

\* materialFormat(hit, wikipedia, wikipedia_limit, getContent, content_extension)
materialFormat(hit, wikipedia, wikipedia_limit, getContent, content_extension) ==
    [ weight |-> hit.score,
      material_id |-> hit.material_id,
      url |-> hit.material_url,
      website |-> hit.website_url,
      language |-> hit.language,
      provider_name |-> ToLowerCase(hit.provider_name),
      content_ids |->
          IF hit.contents.k = "arr"
          THEN [i \in 1..Len(hit.contents.v) |-> hit.contents.v[i].content_id]
          ELSE <<>>,
      contents |->
          IF getContent
          THEN Arr(FilterExtension(hit.contents.v, content_extension))
          ELSE Undefined,
      wikipedia |->
          IF wikipedia
          THEN (IF ~Falsy(wikipedia_limit) /\ wikipedia_limit.v > 0
                THEN Arr(SliceTo(hit.wikipedia, wikipedia_limit.v))
                ELSE Arr(hit.wikipedia))
          ELSE Undefined ]

\* formatLicense(license, license_url); license is a sequence of characters
formatLicense(license, license_url) ==
    [ short_name |-> license,
      typed_name |-> Split(license, "-"),
      disclaimer |-> DEFAULT_DISCLAIMER,
      url |-> license_url ]

\* imageFormat throws a TypeError when the image carries no license
ImageFormatThrows(image) == image.license.k # "arr"

\* imageFormat(image)
imageFormat(image) ==
    [ image_id |-> image.id,
      license |-> formatLicense(image.license.v, image.license_url),
      material_url |-> image.url ]

\* fetchImages: the query object handed to the image provider;
\*   ...filteredLicenses && { license: filteredLicenses.join(",") }
FetchImagesQuery(text, limit, page, licenses) ==
    LET filteredLicenses ==
            IF licenses # <<>> THEN Arr(FilterNe(licenses, "cc")) ELSE Undefined
    IN  [ to |-> "cc",
          q |-> text,
          license |-> IF filteredLicenses.k = "arr"
                      THEN Str(Join(filteredLicenses.v, ","))
                      ELSE Undefined,
          page_size |-> limit,
          page |-> page ]

----------------------------------------------------------------------------
(* Record normalization, POST and PATCH /oer_materials *)

\* strings of a record are held as sequences of characters; the fixed texts
\* are held as one piece
NO_LICENSE_DISCLAIMER ==
    <<"X5GON recommends the use of the Creative Commons open licenses. During a transitory phase, other licenses, open in spirit, are sometimes used by our partner sites.">>

\* the characters \w and "-" of the class [\w\-]
WordChars ==
    { "a", "b", "c", "d", "e", "f", "g", "h", "i", "j", "k", "l", "m",
      "n", "o", "p", "q", "r", "s", "t", "u", "v", "w", "x", "y", "z",
      "A", "B", "C", "D", "E", "F", "G", "H", "I", "J", "K", "L", "M",
      "N", "O", "P", "Q", "R", "S", "T", "U", "V", "W", "X", "Y", "Z",
      "0", "1", "2", "3", "4", "5", "6", "7", "8", "9", "_", "-" }

\* the number of characters of str from position j on that lie in chars
RECURSIVE Run(_, _, _)
Run(str, j, chars) ==
    IF j <= Len(str) /\ str[j] \in chars THEN 1 + Run(str, j + 1, chars) ELSE 0

\* the literal lit occurs in str at position i
LiteralAt(str, i, lit) ==
    /\ i + Len(lit) - 1 <= Len(str)
    /\ SubSeq(str, i, i + Len(lit) - 1) = lit

\* LicenseRegexAt with the i flag: "/Licenses/" matches as well
LicenseRegexAt_IgnoreCase(url, i) ==
    /\ \/ LiteralAt(url, i, <<"/", "l", "i", "c", "e", "n", "s", "e", "s", "/">>)
       \/ LiteralAt(url, i, <<"/", "l", "i", "c", "e", "n", "c", "e", "s", "/">>)
       \/ LiteralAt(url, i, <<"/", "L", "i", "c", "e", "n", "s", "e", "s", "/">>)
    /\ LET n == Run(url, i + 10, WordChars)
       IN  /\ n >= 1
           /\ i + 10 + n <= Len(url)
           /\ url[i + 10 + n] = "/"

\* /\/licen[sc]es\/([\w\-]+)\// matches at position i: the greedy group is
\* the whole run of [\w\-] characters, which a "/" has to follow
LicenseRegexAt(url, i) ==
    /\ \/ LiteralAt(url, i, <<"/", "l", "i", "c", "e", "n", "s", "e", "s", "/">>)
       \/ LiteralAt(url, i, <<"/", "l", "i", "c", "e", "n", "c", "e", "s", "/">>)
    /\ LET n == Run(url, i + 10, WordChars)
       IN  /\ n >= 1
           /\ i + 10 + n <= Len(url)
           /\ url[i + 10 + n] = "/"

\* LicenseMatch that takes the rest of the url as the group
LicenseMatch_Rest(url) ==
    IF \E i \in 1..Len(url) : LicenseRegexAt(url, i)
    THEN LET i == CHOOSE k \in 1..Len(url) :
                    /\ LicenseRegexAt(url, k)
                    /\ \A m \in 1..(k - 1) : ~LicenseRegexAt(url, m)
         IN  Arr(<<url, SubSeq(url, i + 10, Len(url) - 1)>>)
    ELSE Null

\* url.match(regex): null, or [whole match, group 1] of the leftmost match
LicenseMatch(url) ==
    IF \E i \in 1..Len(url) : LicenseRegexAt(url, i)
    THEN LET i == CHOOSE k \in 1..Len(url) :
                    /\ LicenseRegexAt(url, k)
                    /\ \A m \in 1..(k - 1) : ~LicenseRegexAt(url, m)
             n == Run(url, i + 10, WordChars)
         IN  Arr(<<SubSeq(url, i, i + 10 + n), SubSeq(url, i + 10, i + 9 + n)>>)
    ELSE Null

\* if (url): undefined and the empty string are falsy
HasLicenseUrl(url) == url.k = "str" /\ url.v # <<>>

\* url.match(regex)[1] throws a TypeError when the url does not match
LicenseThrows(url) == HasLicenseUrl(url) /\ LicenseMatch(url.v).k = "null"

\* NormalizeLicense with the split done after the if, on either short name
NormalizeLicense_SplitAlways(url) ==
    LET shortName == IF HasLicenseUrl(url) THEN LicenseMatch(url.v).v[2]
                     ELSE NO_LICENSE_DISCLAIMER
    IN  [ k |-> "license",
          short_name |-> shortName,
          typed_name |-> Arr(Split(shortName, "-")),
          disclaimer |-> DEFAULT_DISCLAIMER,
          url |-> url ]

\* record.license = { short_name, typed_name, disclaimer, url }, for a url
\* on which the extraction does not throw
NormalizeLicense(url) ==
    IF HasLicenseUrl(url)
    THEN LET shortName == LicenseMatch(url.v).v[2]
         IN  [ k |-> "license",
               short_name |-> shortName,
               typed_name |-> Arr(Split(shortName, "-")),
               disclaimer |-> DEFAULT_DISCLAIMER,
               url |-> url ]
    ELSE [ k |-> "license",
           short_name |-> NO_LICENSE_DISCLAIMER,
           typed_name |-> Undefined,
           disclaimer |-> DEFAULT_DISCLAIMER,
           url |-> url ]

\* the white-space characters a title can hold besides the blank
CR == "\\r"
LF == "\\n"
TAB == "\\t"

\* String.prototype.replace(/\r*\n+/g, " "): a run of CR followed by a run
\* of at least one LF becomes one blank; a CR that no LF follows is kept
RECURSIVE ReplaceNewlines(_)
ReplaceNewlines(str) ==
    IF str = <<>> THEN <<>>
    ELSE LET r == Run(str, 1, {CR})
             n == Run(str, r + 1, {LF})
         IN  IF n >= 1
             THEN <<" ">> \o ReplaceNewlines(SubSeq(str, r + n + 1, Len(str)))
             ELSE <<Head(str)>> \o ReplaceNewlines(Tail(str))

\* String.prototype.replace(/\t+/g, " ")
RECURSIVE ReplaceTabs(_)
ReplaceTabs(str) ==
    IF str = <<>> THEN <<>>
    ELSE LET n == Run(str, 1, {TAB})
         IN  IF n >= 1
             THEN <<" ">> \o ReplaceTabs(SubSeq(str, n + 1, Len(str)))
             ELSE <<Head(str)>> \o ReplaceTabs(Tail(str))

\* String.prototype.trim()
RECURSIVE TrimEnd(_)
TrimEnd(str) ==
    IF str # <<>> /\ str[Len(str)] \in {" ", CR, LF, TAB}
    THEN TrimEnd(SubSeq(str, 1, Len(str) - 1)) ELSE str

Trim(str) ==
    LET n == Run(str, 1, {" ", CR, LF, TAB})
    IN  TrimEnd(SubSeq(str, n + 1, Len(str)))

\* x.replace(/\r*\n+/g, " ").replace(/\t+/g, " ").trim()
CleanText(str) == Trim(ReplaceTabs(ReplaceNewlines(str)))

\* the mimetype lists of config/mimetypes.json, by material type
Mimetypes ==
    [ text |-> {"application/pdf"}, video |-> {"video/mp4"}, audio |-> {"audio/mp3"} ]

\* materialType(mimetype): the first type whose list includes it, else null
materialType(mimetype) ==
    IF \E type \in DOMAIN Mimetypes : mimetype \in Mimetypes[type]
    THEN CHOOSE type \in DOMAIN Mimetypes : mimetype \in Mimetypes[type]
    ELSE "null"

\* the fields the wikipedia loop renames: <<old name, new name>>
ConceptRenames ==
    << <<"secUri", "sec_uri">>, <<"secName", "sec_name">>,
       <<"pageRank", "pagerank">>, <<"dbPediaIri", "db_pedia_iri">>,
       <<"supportLen", "support">>, <<"wikiDataClasses", "wiki_data_classes">> >>

\* one pass of the loop body on a concept held as a function of its field
\* names: value.sec_uri = value.secUri; ...; delete value.secUri; ...
RenameConcept(value) ==
    LET old == {ConceptRenames[i][1] : i \in 1..Len(ConceptRenames)}
        new == {ConceptRenames[i][2] : i \in 1..Len(ConceptRenames)}
        oldOf(f) == ConceptRenames[CHOOSE i \in 1..Len(ConceptRenames) :
                                      ConceptRenames[i][2] = f][1]
    IN  [f \in ((DOMAIN value) \ old) \cup new |->
            IF f \in new
            THEN (IF oldOf(f) \in DOMAIN value THEN value[oldOf(f)] ELSE Undefined)
            ELSE value[f]]

\* for (const value of record.wikipedia) { ... }
RenameWikipedia(wikipedia) ==
    [i \in 1..Len(wikipedia) |-> RenameConcept(wikipedia[i])]

\* the try block of POST /oer_materials throws a TypeError before the write:
\* record or record.title undefined, a license url that does not match, or
\* record.wikipedia not iterable
CreateThrows(record) ==
    \/ record.k # "record"
    \/ record.title.k # "str"
    \/ LicenseThrows(record.license)
    \/ record.wikipedia.k # "arr"

\* the record POST /oer_materials hands to es.pushRecord
CreateRecord(record) ==
    [ k |-> "record",
      material_id |-> record.material_id,
      title |-> Str(CleanText(record.title.v)),
      description |->
          IF record.description.k = "str" /\ record.description.v # <<>>
          THEN Str(CleanText(record.description.v))
          ELSE record.description,
      extension |-> record.type,
      type |-> materialType(record.mimetype),
      mimetype |-> record.mimetype,
      license |-> NormalizeLicense(record.license),
      wikipedia |-> Arr(RenameWikipedia(record.wikipedia.v)) ]

\* the try block of PATCH /oer_materials/:material_id throws before the write
UpdateThrows(record) ==
    \/ record.k # "record"
    \/ record.wikipedia.k # "arr"

\* the record PATCH /oer_materials/:material_id hands to es.updateRecord
UpdateRecord(record) ==
    [record EXCEPT !.wikipedia = Arr(RenameWikipedia(record.wikipedia.v))]

----------------------------------------------------------------------------
(* Requests and replies *)

Slots == {1, 2}

\* the values toInt() can leave in an optional integer parameter
NumInputs(lo, hi) == {Absent, NaN} \cup {Num(n) : n \in lo..hi}

SeqsUpTo(S, n) == UNION {[1..m -> S] : m \in 0..n}

DefaultQuery ==
    [ text |-> "ml", url |-> "", types |-> <<>>, licenses |-> <<>>,
      languages |-> <<>>, content_languages |-> <<>>,
      content_extension |-> "", provider_ids |-> <<>>,
      wikipedia |-> FALSE, wikipedia_limit |-> Absent, sort_by |-> "",
      limit |-> Absent, page |-> Absent ]

\* requests that vary the pagination parameters
PagQueries ==
    { [DefaultQuery EXCEPT !.text = t, !.limit = l, !.page = p, !.types = ty] :
        t \in {"", "ml"},
        l \in NumInputs(-MaxNegLimit, MaxLimitReq),
        p \in NumInputs(-MaxNegPage, MaxPage),
        ty \in {<<>>, <<"image">>} }

\* requests that vary the filter parameters
FilterQueries ==
    { [DefaultQuery EXCEPT !.types = ty, !.licenses = li, !.sort_by = so,
                           !.provider_ids = pr, !.languages = la] :
        ty \in {<<>>, <<"all">>, <<"video">>, <<"image">>, <<"pdf">>, <<"pdf", "doc">>},
        li \in SeqsUpTo({"cc", "by", "by-sa"}, MaxLicenses),
        so \in {"", "creation_date", "retrieved_date"},
        pr \in {<<>>, <<1>>},
        la \in {<<>>, <<"en">>} }

\* requests that vary the display parameters
FormatQueries ==
    { [DefaultQuery EXCEPT !.content_extension = ce, !.content_languages = cl,
                           !.wikipedia = w, !.wikipedia_limit = wl] :
        ce \in {"", "plain", "webvtt", "pdf"},
        cl \in {<<>>, <<"en">>},
        w \in BOOLEAN,
        wl \in {Absent, NaN, Num(-1), Num(0), Num(1), Num(2), Num(5)} }

SearchQueries == PagQueries \cup FilterQueries \cup FormatQueries

\* documents of the index
Hit1 ==
    [ score |-> 7, material_id |-> 1, material_url |-> "m1",
      website_url |-> "u1", language |-> "en", provider_name |-> <<"V", "L">>,
      contents |-> Arr(<< [content_id |-> 11, extension |-> "plain"],
                          [content_id |-> 12, extension |-> "webvtt"] >>),
      wikipedia |-> <<"A", "B", "C">> ]
Hit2 ==
    [ score |-> 6, material_id |-> 2, material_url |-> "m2",
      website_url |-> "u1", language |-> "sl", provider_name |-> <<"a", "B">>,
      contents |-> Undefined,
      wikipedia |-> <<"B", "A">> ]

\* the errors an upstream call can fail with
UpstreamErrors == {"ECONNREFUSED", "parsing_exception"}

\* replies of es.search to a search body
EsReplies ==
    { [ok |-> FALSE, error |-> e] : e \in UpstreamErrors }
    \cup { [ok |-> TRUE, total |-> n,
            hits |-> IF n = 0 THEN <<>> ELSE <<Hit1>>] : n \in 0..MaxTotalHits }
    \cup { [ok |-> TRUE, total |-> 2, hits |-> <<Hit1, Hit2>>] }

\* records of the image provider
Image1 ==
    [ id |-> "i1", url |-> "img1", license_url |-> "lu1",
      license |-> Arr(<<"b", "y", "-", "s", "a">>) ]
Image2 ==
    [ id |-> "i2", url |-> "img2", license_url |-> "lu2", license |-> Undefined ]

\* replies of the image provider
CcReplies ==
    { [ok |-> FALSE, error |-> e] : e \in UpstreamErrors }
    \cup { [ok |-> TRUE, page_count |-> n,
            results |-> IF n = 0 THEN <<>> ELSE <<Image1>>] :
           n \in (0..2) \cup (99..MaxPageCount) }
    \cup { [ok |-> TRUE, page_count |-> 1, results |-> <<Image2>>] }

\* pieces of license urls
\* "https://creativecommons.org"
Host ==
    <<"h", "t", "t", "p", "s", ":", "/", "/", "c", "r", "e", "a", "t", "i",
      "v", "e", "c", "o", "m", "m", "o", "n", "s", ".", "o", "r", "g">>
Licenses == <<"/", "l", "i", "c", "e", "n", "s", "e", "s", "/">>
Licences == <<"/", "l", "i", "c", "e", "n", "c", "e", "s", "/">>

\* urls the extraction succeeds on
UrlByNcSa == Host \o Licenses \o <<"b", "y", "-", "n", "c", "-", "s", "a", "/", "4", ".", "0", "/">>
UrlBritish == Host \o Licences \o <<"b", "y", "/">>
UrlSecond == Host \o Licenses \o <<"b", "y", ".", "s", "a">> \o Licences \o <<"b", "y", "-", "n", "d", "/">>
UrlHyphen == Licenses \o <<"B", "Y", "_", "4", "-", "/", "x">>
MatchingUrls == {UrlByNcSa, UrlBritish, UrlSecond, UrlHyphen}

\* urls the extraction throws on
UrlNoSlash == Host \o Licenses \o <<"b", "y", "-", "s", "a">>
UrlPublicDomain == Host \o <<"/", "p", "d", "/", "z", "e", "r", "o", "/", "1", ".", "0", "/">>
UrlCapital == Host \o <<"/", "L", "i", "c", "e", "n", "s", "e", "s", "/", "b", "y", "/">>
UrlEmptyCode == Host \o Licenses \o <<"/">>
MismatchingUrls == {UrlNoSlash, UrlPublicDomain, UrlCapital, UrlEmptyCode}

\* the values of record.license in a request body
LicenseInputs ==
    {Undefined, Str(<<>>)} \cup {Str(u) : u \in MatchingUrls \cup MismatchingUrls}

\* wikipedia concepts of a raw record, and one in the index's field names
V(x) == [k |-> "val", v |-> x]
Concept1 ==
    [ uri |-> V("w1"), name |-> V("n1"), secUri |-> V("s1"), secName |-> V("sn1"),
      pageRank |-> V(3), dbPediaIri |-> V("d1"), supportLen |-> V(7),
      wikiDataClasses |-> V("c1"), cosine |-> V(1) ]
Concept2 ==
    [ uri |-> V("w2"), name |-> V("n2"), secUri |-> V("s2"), pageRank |-> V(1) ]
Concept3 ==
    [ uri |-> V("w3"), name |-> V("n3"), sec_uri |-> V("s3"), sec_name |-> V("sn3") ]
WikipediaInputs ==
    {Undefined, Arr(<<>>), Arr(<<Concept1>>), Arr(<<Concept1, Concept2>>),
     Arr(<<Concept3, Concept1>>)}

TitleInputs ==
    {Undefined, Str(<<"a">>),
     Str(<<" ", "a", CR, CR, LF, LF, "b", TAB, TAB, "c", CR, "d", LF, " ">>)}

BaseRecord ==
    [ k |-> "record", material_id |-> Num(2), title |-> Str(<<"a">>),
      description |-> Undefined, type |-> "pdf", mimetype |-> "application/pdf",
      license |-> Str(UrlByNcSa), wikipedia |-> Arr(<<Concept1>>) ]

\* the values of body.record: absent, or a record varied one field at a time
Records ==
    {Undefined}
    \cup { [BaseRecord EXCEPT !.license = l, !.material_id = Num(m), !.wikipedia = w] :
            l \in LicenseInputs, m \in 1..MaxMaterialId,
            w \in {Arr(<<Concept1>>), Arr(<<Concept1, Concept2>>)} }
    \cup { [BaseRecord EXCEPT !.wikipedia = w, !.license = l] :
            w \in WikipediaInputs, l \in {Undefined, Str(UrlBritish), Str(UrlNoSlash)} }
    \cup { [BaseRecord EXCEPT !.title = t, !.description = d, !.mimetype = m] :
            t \in TitleInputs, d \in TitleInputs \cup {Str(<<>>)},
            m \in {"application/pdf", "video/mp4", "image/png"} }

\* the values of the :material_id path parameter after toInt()
MaterialIds == {NaN} \cup {Num(m) : m \in 0..MaxMaterialId}

\* the documents of the index before the request: material 1 only
InitialIndex ==
    [ i \in {Num(1)} |->
        CreateRecord([BaseRecord EXCEPT !.material_id = Num(1)]) ]

\* replies of es.pushRecord / es.updateRecord / es.deleteRecord: a failure of
\* the engine, or its answer; an update or delete of an id without a document
\* is reported as not found or passed over, as the client library decides
WriteReplies(call, docs) ==
    { [ok |-> FALSE, error |-> e] : e \in UpstreamErrors }
    \cup (IF call.op \in {"updateRecord", "deleteRecord"} /\ call.id \notin DOMAIN docs
          THEN { [ok |-> FALSE, error |-> "not_found"],
                 [ok |-> TRUE, result |-> "noop"] }
          ELSE { [ok |-> TRUE, result |-> call.op] })

\* the documents of the index after the engine has answered a write
IndexAfter(docs, call, reply) ==
    IF ~reply.ok \/ reply.result = "noop" THEN docs
    ELSE IF call.op = "deleteRecord"
         THEN [i \in (DOMAIN docs) \ {call.id} |-> docs[i]]
         ELSE [i \in (DOMAIN docs) \cup {call.id} |->
                  IF i = call.id THEN call.record ELSE docs[i]]

\* replies of es.refreshIndex
RefreshReplies ==
    { [ok |-> FALSE, error |-> e] : e \in UpstreamErrors }
    \cup { [ok |-> TRUE, result |-> "refreshed"] }

----------------------------------------------------------------------------
(* Handler state *)

\* a slot without a request
Idle ==
    [ route |-> "none", pc |-> "off", sent |-> DefaultQuery,
      query |-> DefaultQuery, limit |-> 0, page |-> 0, size |-> 0, from |-> 0,
      materialURLs |-> <<>>, preferedLangs |-> <<>>,
      material_id |-> Absent, record |-> Undefined, filters |-> <<>>,
      calls |-> <<>>, replies |-> <<>>, errs |-> <<>>, res |-> <<>> ]

\* a request as it reaches its handler, after the parameter sanitizers
NewRequest(route, q) ==
    [Idle EXCEPT !.route = route, !.pc = "recv", !.sent = q, !.query = q]

\* new ErrorHandler(statusCode, message)
ErrorHandler(statusCode, message) ==
    [statusCode |-> statusCode, message |-> message]

\* CatchError forwarding the upstream error's own text
CatchError_Leak(error) ==
    ErrorHandler(500, IF error.ok THEN INTERNAL_ERROR ELSE error.error)

\* catch (error) { return next(new ErrorHandler(500, "Internal server error")); }
\* error is the failed reply, or the reply whose formatting threw
CatchError(error) == ErrorHandler(500, INTERNAL_ERROR)

\* res.status(400).json({ message, query })
BadRequest(message, query) ==
    [status |-> 400, message |-> message, query |-> query]

----------------------------------------------------------------------------
(* GET /oer_materials *)

SEARCH_BASE_URL == "https://platform.x5gon.org/api/v2/search"

\* if (!text): the empty string and the absent value are both falsy
SearchMissingText(q) == q.text = ""

\* req.query after `req.query.limit = limit; req.query.page = page;`
SearchQuery(query, limit, page) ==
    [query EXCEPT !.limit = Num(limit), !.page = Num(page)]

\* the handler from the receipt of the request to its first await
SearchReceive(s) ==
    /\ UNCHANGED <<setLanguages, startup, index, load>>
    /\ h[s].pc = "recv"
    /\ h[s].route = "search"
    /\ LET r == h[s]
           text == r.sent.text
           limit == SearchLimit(r.sent.limit)
           page == SearchPage(r.sent.page)
           size == limit
           from == From(page, size)
           query == SearchQuery(r.query, limit, page)
           typegroup == Typegroup(r.sent.types, SearchGroups)
       IN  IF SearchMissingText(r.sent)
           THEN h' = [h EXCEPT ![s] =
                   [r EXCEPT !.pc = "done",
                             !.res = Append(r.res,
                                 BadRequest("query parameter 'text' not available", r.query))]]
           ELSE h' = [h EXCEPT ![s] =
                   [r EXCEPT !.limit = limit, !.page = page,
                             !.size = size, !.from = from,
                             !.query = query,
                             !.filters = SearchFilters(query),
                             !.pc = IF typegroup = "image" THEN "await_cc" ELSE "await_es",
                             !.calls = Append(r.calls,
                                 IF typegroup = "image"
                                 THEN FetchImagesQuery(text, limit, page, r.sent.licenses)
                                 ELSE [to |-> "es", index |-> "oer_materials",
                                       body |-> EsQuery(query, from, size)])]]

\* the 200 response of GET /oer_materials
SearchResponse(r, results, totalHits, totalPages, aggregations) ==
    [ status |-> 200,
      query |-> r.query,
      rec_materials |-> results,
      total_hits |-> totalHits,
      total_pages |-> totalPages,
      prev_page |-> PrevPage(SEARCH_BASE_URL, r.query, r.page),
      next_page |-> NextPage(SEARCH_BASE_URL, r.query, r.page, totalPages),
      aggregations |-> aggregations ]

\* totalPages = output.page_count > 100 ? 100 : output.page_count
ImageTotalPages(page_count) ==
    IF page_count > CC_MAX_PAGES THEN CC_MAX_PAGES ELSE page_count

\* the image branch after the await of fetchImages
SearchImageReply(s) ==
    /\ UNCHANGED <<setLanguages, startup, index, load>>
    /\ h[s].pc = "await_cc"
    /\ h[s].route = "search"
    /\ \E output \in CcReplies :
        LET r == h[s]
            throws == \/ ~output.ok
                      \/ \E i \in 1..Len(output.results) :
                            ImageFormatThrows(output.results[i])
        IN  IF throws
            THEN h' = [h EXCEPT ![s] =
                    [r EXCEPT !.pc = "next",
                              !.replies = Append(r.replies, output),
                              !.errs = Append(r.errs, CatchError(output))]]
            ELSE LET totalPages == ImageTotalPages(output.page_count)
                     totalHits == totalPages * CC_PAGE_HITS
                     results == [i \in 1..Len(output.results) |->
                                    imageFormat(output.results[i])]
                 IN  h' = [h EXCEPT ![s] =
                        [r EXCEPT !.pc = "done",
                                  !.replies = Append(r.replies, output),
                                  !.res = Append(r.res,
                                      SearchResponse(r, results, totalHits, totalPages, FALSE))]]

\* the primary-index branch after the await of es.search
SearchEsReply(s) ==
    /\ UNCHANGED <<setLanguages, startup, index, load>>
    /\ h[s].pc = "await_es"
    /\ h[s].route = "search"
    /\ \E output \in EsReplies :
        LET r == h[s]
            getContent == GetContent(r.sent)
            throws == \/ ~output.ok
                      \/ \E i \in 1..Len(output.hits) :
                            MaterialFormatThrows(output.hits[i], getContent)
        IN  IF throws
            THEN h' = [h EXCEPT ![s] =
                    [r EXCEPT !.pc = "next",
                              !.replies = Append(r.replies, output),
                              !.errs = Append(r.errs, CatchError(output))]]
            ELSE LET results == [i \in 1..Len(output.hits) |->
                                    materialFormat(output.hits[i], r.sent.wikipedia,
                                        r.sent.wikipedia_limit, getContent,
                                        r.sent.content_extension)]
                     totalHits == output.total
                     totalPages == TotalPages(output.total, r.size)
                 IN  h' = [h EXCEPT ![s] =
                        [r EXCEPT !.pc = "done",
                                  !.replies = Append(r.replies, output),
                                  !.res = Append(r.res,
                                      SearchResponse(r, results, totalHits, totalPages, TRUE))]]

----------------------------------------------------------------------------
(* GET /recommend/materials *)

RECOMMEND_BASE_URL == "https://platform.x5gon.org/api/v1/recommend/materials"
\* hit._source.wikipedia.slice(0, 30)
WIKI_SLICE == 30
\* .slice(startSlice, 20)
CONCEPT_SLICE_END == 20
\* materialQuery.size
LOOKUP_SIZE == 100

\* if (!limit) DEFAULT; else if (limit <= 0) DEFAULT;
\* else if (limit >= MAX_LIMIT) MAX_LIMIT
RecommendLimit(limit) ==
    IF Falsy(limit) THEN DEFAULT_LIMIT
    ELSE IF limit.v <= 0 THEN DEFAULT_LIMIT
    ELSE IF limit.v >= MAX_LIMIT THEN MAX_LIMIT
    ELSE limit.v

\* if (!page) { page = DEFAULT_PAGE; }
RecommendPage(page) ==
    IF Falsy(page) THEN DEFAULT_PAGE ELSE page.v

\* RecommendQuery without the write of the effective limit
RecommendQuery_NoLimit(query, limit, page) ==
    IF Falsy(query.page) THEN [query EXCEPT !.page = Num(page)] ELSE query

\* req.query after `req.query.limit = limit` and, only when the page was
\* defaulted, `req.query.page = page`
RecommendQuery(query, limit, page) ==
    IF Falsy(query.page)
    THEN [query EXCEPT !.limit = Num(limit), !.page = Num(page)]
    ELSE [query EXCEPT !.limit = Num(limit)]

\* viewedMaterials.map(hit => hit.wikipedia.slice(0, 30).map(w => w.sec_name))
\*                .reduce((prev, curr) => prev.concat(curr), [])
RECURSIVE ConceptNames(_)
ConceptNames(hits) ==
    IF hits = <<>> THEN <<>>
    ELSE SliceTo(Head(hits).wikipedia, WIKI_SLICE) \o ConceptNames(Tail(hits))

\* one step of the counting reduce of recommend.js on the object prev, held
\* as the list of its entries in insertion order:
\*   if (!prev[curr]) { prev[curr] = 1; }  prev[curr] += 1;
CountStep(prev, curr) ==
    IF \E i \in 1..Len(prev) : prev[i][1] = curr
    THEN [i \in 1..Len(prev) |->
            IF prev[i][1] = curr THEN <<curr, prev[i][2] + 1>> ELSE prev[i]]
    ELSE Append(prev, <<curr, 1 + 1>>)

RECURSIVE CountConcepts(_, _)
CountConcepts(names, prev) ==
    IF names = <<>> THEN prev
    ELSE CountConcepts(Tail(names), CountStep(prev, Head(names)))

\* Array.prototype.sort((a, b) => b[1] - a[1]): stable, descending count
RECURSIVE InsertDesc(_, _)
InsertDesc(sorted, e) ==
    IF sorted = <<>> THEN <<e>>
    ELSE IF Head(sorted)[2] >= e[2]
         THEN <<Head(sorted)>> \o InsertDesc(Tail(sorted), e)
         ELSE <<e>> \o sorted

RECURSIVE SortDesc(_)
SortDesc(entries) ==
    IF entries = <<>> THEN <<>>
    ELSE InsertDesc(SortDesc(SubSeq(entries, 1, Len(entries) - 1)),
                    entries[Len(entries)])

\* Array.prototype.slice(start, end) with 0 <= start, 0 <= end
Slice(arr, start, end) ==
    SubSeq(arr, start + 1, IF end < Len(arr) THEN end ELSE Len(arr))

\* startSlice = wikiConcepts.length > 2 ? 2 : 0, taken on the counting
\* object, whose `length` is undefined unless a concept is named "length"
RecommendStartSlice(counts) ==
    IF \E i \in 1..Len(counts) : counts[i][1] = "length" /\ counts[i][2] > 2
    THEN 2 ELSE 0

\* wikiConcepts of recommend.js
RecommendWikiConcepts(viewedMaterials) ==
    LET counts == CountConcepts(ConceptNames(viewedMaterials), <<>>)
    IN  Slice(SortDesc(counts), RecommendStartSlice(counts), CONCEPT_SLICE_END)

\* a filtersMust list that takes its language terms from the language cache
RecommendFiltersMust_Cache(q) ==
    LicenseTerms(q.licenses)
     \o (IF setLanguages # <<>> THEN <<Terms("language", setLanguages)>> ELSE <<>>)

\* the filtersMust list of GET /recommend/materials, in push order
RecommendFiltersMust(q) ==
    LET filetypes == Filetypes(q.types, RecommendGroups)
        typegroup == Typegroup(q.types, RecommendGroups)
    IN  (IF filetypes # <<>> THEN <<Regexp("material_url", filetypes)>> ELSE <<>>)
     \o (IF typegroup # "" THEN <<Term("type", typegroup)>> ELSE <<>>)
     \o LicenseTerms(q.licenses)
     \o (IF q.provider_ids # <<>> THEN <<Terms("provider_id", q.provider_ids)>> ELSE <<>>)
     \o (IF q.languages # <<>> THEN <<Terms("language", q.languages)>> ELSE <<>>)
     \o LicenseExists(q.licenses)

\* RecommendFiltersMustNot that skips an empty list of urls
RecommendFiltersMustNot_NonEmpty(materialURLs) ==
    IF materialURLs # <<>> THEN <<Terms("material_url", materialURLs)>> ELSE <<>>

\* the filtersMustNot list: materialURLs is an array, hence always truthy
RecommendFiltersMustNot(materialURLs) ==
    <<Terms("material_url", materialURLs)>>

\* body of GET /recommend/materials
RecommendBody(q, from, size, wikiConcepts, materialURLs) ==
    LET filtersMust == RecommendFiltersMust(q)
        filtersMustNot == RecommendFiltersMustNot(materialURLs)
        filterFlag == Len(filtersMust) # 0 \/ Len(filtersMustNot) # 0
    IN
    [ from |-> from,
      size |-> size,
      source_excludes |-> TRUE,
      has_must |-> FALSE,
      must |-> <<>>,
      should_text |-> "",
      should |-> [i \in 1..Len(wikiConcepts) |->
                    [query |-> wikiConcepts[i][1],
                     boost |-> <<wikiConcepts[i][2], Len(materialURLs)>>]],
      has_filter |-> filterFlag,
      filter |-> IF filterFlag THEN filtersMust ELSE <<>>,
      has_sort |-> FALSE,
      sort |-> <<>>,
      must_not |-> IF filterFlag THEN filtersMustNot ELSE <<>>,
      collapse |-> "website_url",
      min_score |-> 5 ]

\* replies of es.search to materialQuery: the materials with the given url
LookupReplies ==
    { [ok |-> FALSE, error |-> e] : e \in UpstreamErrors }
    \cup { [ok |-> TRUE, total |-> 0, hits |-> <<>>],
           [ok |-> TRUE, total |-> 1, hits |-> <<Hit1>>],
           [ok |-> TRUE, total |-> 2, hits |-> <<Hit1, Hit2>>] }

\* reference documents stored under other website urls
DocPair1 ==
    [Hit1 EXCEPT !.material_id = 3, !.material_url = "m3", !.website_url = "u2",
                 !.wikipedia = <<"A", "B", "C", "D">>]
DocPair2 ==
    [Hit1 EXCEPT !.material_id = 4, !.material_url = "m4", !.website_url = "u2",
                 !.language = "de", !.wikipedia = <<"C", "D", "B">>]
DocFew ==
    [Hit1 EXCEPT !.material_id = 5, !.material_url = "m5", !.website_url = "u3",
                 !.wikipedia = <<"B", "A">>]
DocLong ==
    [Hit1 EXCEPT !.material_id = 6, !.material_url = "m6", !.website_url = "u4",
                 !.wikipedia =
                    <<"c01", "c02", "c03", "c04", "c05", "c06", "c07", "c08",
                      "c09", "c10", "c11", "c12", "c13", "c14", "c15", "c16",
                      "c17", "c18", "c19", "c20", "c21", "c22", "c23", "c24",
                      "c25", "c26", "c27", "c28", "c29", "c30", "c01", "c02">>]

\* the materials the index holds per website url
ReferenceMaterials ==
    [ u2 |-> <<DocPair1, DocPair2>>, u3 |-> <<DocFew>>, u4 |-> <<DocLong>> ]

\* replies of es.search to materialQuery for the given url: no material is
\* stored under the empty url
MaterialReplies(url) ==
    IF url \in DOMAIN ReferenceMaterials
    THEN { [ok |-> TRUE, total |-> Len(ReferenceMaterials[url]),
            hits |-> ReferenceMaterials[url]] }
    ELSE IF url = ""
    THEN { r \in LookupReplies : ~r.ok \/ r.total = 0 }
    ELSE LookupReplies

\* RecommendRedirects without the test of text
RecommendRedirects_NoText(results, q) == results.total = 0

\* if (results.hits.total.value === 0 && text)
RecommendRedirects(results, q) == results.total = 0 /\ q.text # ""

\* RecommendMissingParams with || in place of &&
RecommendMissingParams_Or(q) == q.text = "" \/ q.url = ""

\* if (!text && !url)
RecommendMissingParams(q) == q.text = "" /\ q.url = ""

\* the handler from the receipt of the request to its first await
RecommendReceive(s) ==
    /\ UNCHANGED <<setLanguages, startup, index, load>>
    /\ h[s].pc = "recv"
    /\ h[s].route = "recommend"
    /\ LET r == h[s] IN
       IF RecommendMissingParams(r.sent)
       THEN h' = [h EXCEPT ![s] =
               [r EXCEPT !.pc = "done",
                         !.res = Append(r.res,
                             BadRequest("query parameter 'text' or 'url' not available",
                                        r.query))]]
       ELSE h' = [h EXCEPT ![s] =
               [r EXCEPT !.pc = "await_lookup",
                         !.calls = Append(r.calls,
                             [to |-> "es", index |-> "oer_materials",
                              body |-> [size |-> LOOKUP_SIZE,
                                        term_website_url |-> r.sent.url]])]]

\* from the reply to materialQuery to the await of the recommendation query
RecommendLookupReply(s) ==
    /\ UNCHANGED <<setLanguages, startup, index, load>>
    /\ h[s].pc = "await_lookup"
    /\ h[s].route = "recommend"
    /\ \E results \in MaterialReplies(h[s].sent.url) :
        LET r == h[s] IN
        IF ~results.ok
        THEN h' = [h EXCEPT ![s] =
                [r EXCEPT !.pc = "next",
                          !.replies = Append(r.replies, results),
                          !.errs = Append(r.errs, CatchError(results))]]
        ELSE IF RecommendRedirects(results, r.sent)
        THEN h' = [h EXCEPT ![s] =
                [r EXCEPT !.pc = "done",
                          !.replies = Append(r.replies, results),
                          !.res = Append(r.res,
                              [status |-> 302, location |-> "/api/v1/oer_materials",
                               params |-> r.query])]]
        ELSE LET viewedMaterials == results.hits
                 viewedLangauges == [i \in 1..Len(viewedMaterials) |->
                                        viewedMaterials[i].language]
                 materialURLs == [i \in 1..Len(viewedMaterials) |->
                                        viewedMaterials[i].material_url]
                 preferedLangs == SelectSeq(setLanguages,
                                     LAMBDA lang : ~Includes(viewedLangauges, lang))
                 wikiConcepts == RecommendWikiConcepts(viewedMaterials)
                 limit == RecommendLimit(r.sent.limit)
                 page == RecommendPage(r.sent.page)
                 query == RecommendQuery(r.query, limit, page)
                 size == limit
                 from == From(page, size)
             IN  h' = [h EXCEPT ![s] =
                    [r EXCEPT !.pc = "await_es",
                              !.replies = Append(r.replies, results),
                              !.limit = limit, !.page = page,
                              !.size = size, !.from = from,
                              !.query = query,
                              !.filters = RecommendFiltersMust(query),
                              !.materialURLs = materialURLs,
                              !.preferedLangs = preferedLangs,
                              !.calls = Append(r.calls,
                                  [to |-> "es", index |-> "oer_materials",
                                   body |-> RecommendBody(query, from, size,
                                               wikiConcepts, materialURLs)])]]

\* the 200 response of GET /recommend/materials
RecommendResponse(r, output, total_hits, total_pages) ==
    [ status |-> 200,
      query |-> r.query,
      rec_materials |-> output,
      total_hits |-> total_hits,
      total_pages |-> total_pages,
      prev_page |-> PrevPage(RECOMMEND_BASE_URL, r.query, r.page),
      next_page |-> NextPage(RECOMMEND_BASE_URL, r.query, r.page, total_pages),
      aggregations |-> TRUE ]

\* after the await of the recommendation query
RecommendEsReply(s) ==
    /\ UNCHANGED <<setLanguages, startup, index, load>>
    /\ h[s].pc = "await_es"
    /\ h[s].route = "recommend"
    /\ \E results \in EsReplies :
        LET r == h[s] IN
        IF ~results.ok
        THEN h' = [h EXCEPT ![s] =
                [r EXCEPT !.pc = "next",
                          !.replies = Append(r.replies, results),
                          !.errs = Append(r.errs, CatchError(results))]]
        ELSE LET output == [i \in 1..Len(results.hits) |->
                               materialFormat(results.hits[i], r.sent.wikipedia,
                                   r.sent.wikipedia_limit, FALSE, "")]
                 total_hits == results.total
                 total_pages == TotalPages(results.total, r.size)
             IN  h' = [h EXCEPT ![s] =
                    [r EXCEPT !.pc = "done",
                              !.replies = Append(r.replies, results),
                              !.res = Append(r.res,
                                  RecommendResponse(r, output, total_hits, total_pages))]]

\* the module-level aggregation query issued when the router is built:
\*   es.search(...).then(({ aggregations }) => { setLanguages = ... })
IndexLanguages == <<"en", "sl">>

StartupReply ==
    /\ startup = "pending"
    /\ UNCHANGED <<h, index, load>>
    /\ \/ /\ setLanguages' = IndexLanguages
          /\ startup' = "done"
       \/ /\ startup' = "failed"
          /\ UNCHANGED setLanguages

----------------------------------------------------------------------------
(* GET /recommend/bundles *)

\* const limit = !queryLimit ? DEFAULT : queryLimit <= 0 ? DEFAULT
\*               : queryLimit >= MAX_LIMIT ? DEFAULT : queryLimit
BundlesLimit(queryLimit) ==
    IF Falsy(queryLimit) THEN DEFAULT_LIMIT
    ELSE IF queryLimit.v <= 0 THEN DEFAULT_LIMIT
    ELSE IF queryLimit.v >= MAX_LIMIT THEN DEFAULT_LIMIT
    ELSE queryLimit.v

\* const page = !queryPage ? DEFAULT_PAGE : queryPage
BundlesPage(queryPage) ==
    IF Falsy(queryPage) THEN DEFAULT_PAGE ELSE queryPage.v

\* req.query after `req.query.limit = limit; req.query.page = page;`
BundlesQuery(query, limit, page) ==
    [query EXCEPT !.limit = Num(limit), !.page = Num(page)]

\* one step of the counting reduce of /recommend/bundles:
\*   if (!prev[curr]) { prev[curr] = 0; }  prev[curr] += 1;
BundlesCountStep(prev, curr) ==
    IF \E i \in 1..Len(prev) : prev[i][1] = curr
    THEN [i \in 1..Len(prev) |->
            IF prev[i][1] = curr THEN <<curr, prev[i][2] + 1>> ELSE prev[i]]
    ELSE Append(prev, <<curr, 0 + 1>>)

RECURSIVE BundlesCountConcepts(_, _)
BundlesCountConcepts(names, prev) ==
    IF names = <<>> THEN prev
    ELSE BundlesCountConcepts(Tail(names), BundlesCountStep(prev, Head(names)))

\* startSlice = wikiConcepts.length > 2 ? 2 : 0, taken on the entry list
BundlesStartSlice(entries) == IF Len(entries) > 2 THEN 2 ELSE 0

\* wikiConcepts of /recommend/bundles
BundlesWikiConcepts(viewedMaterials) ==
    LET entries == BundlesCountConcepts(ConceptNames(viewedMaterials), <<>>)
    IN  Slice(SortDesc(entries), BundlesStartSlice(entries), CONCEPT_SLICE_END)

\* the filtersMust list of /recommend/bundles: the same pushes, in the same
\* order, as in /recommend/materials
BundlesFiltersMust(q) == RecommendFiltersMust(q)

\* the filtersMustNot list of /recommend/bundles
BundlesFiltersMustNot(materialURLs) ==
    <<Terms("material_url", materialURLs)>>

\* esQuery of /recommend/bundles
BundlesBody(q, from, size, wikiConcepts, materialURLs) ==
    LET filtersMust == BundlesFiltersMust(q)
        filtersMustNot == BundlesFiltersMustNot(materialURLs)
        filterFlag == Len(filtersMust) > 0 \/ Len(filtersMustNot) > 0
    IN
    [ from |-> from,
      size |-> size,
      source_excludes |-> TRUE,
      has_must |-> FALSE,
      must |-> <<>>,
      should_text |-> "",
      should |-> [i \in 1..Len(wikiConcepts) |->
                    [query |-> wikiConcepts[i][1],
                     boost |-> <<wikiConcepts[i][2], Len(materialURLs)>>]],
      has_filter |-> filterFlag,
      filter |-> IF filterFlag THEN filtersMust ELSE <<>>,
      has_sort |-> FALSE,
      sort |-> <<>>,
      must_not |-> IF filterFlag THEN filtersMustNot ELSE <<>>,
      collapse |-> "website_url",
      min_score |-> 5 ]

\* if (!text && !url)
BundlesMissingParams(q) == q.text = "" /\ q.url = ""

\* if (results.hits.total.value === 0 && text)
BundlesRedirects(results, q) == results.total = 0 /\ q.text # ""

\* the handler from the receipt of the request to its first await
BundlesReceive(s) ==
    /\ UNCHANGED <<setLanguages, startup, index, load>>
    /\ h[s].pc = "recv"
    /\ h[s].route = "bundles"
    /\ LET r == h[s] IN
       IF BundlesMissingParams(r.sent)
       THEN h' = [h EXCEPT ![s] =
               [r EXCEPT !.pc = "done",
                         !.res = Append(r.res,
                             BadRequest("query parameter 'text' or 'url' not available",
                                        r.query))]]
       ELSE h' = [h EXCEPT ![s] =
               [r EXCEPT !.pc = "await_lookup",
                         !.calls = Append(r.calls,
                             [to |-> "es", index |-> "oer_materials",
                              body |-> [size |-> LOOKUP_SIZE,
                                        term_website_url |-> r.sent.url]])]]

\* from the reply to materialQuery to the await of the recommendation query
BundlesLookupReply(s) ==
    /\ UNCHANGED <<setLanguages, startup, index, load>>
    /\ h[s].pc = "await_lookup"
    /\ h[s].route = "bundles"
    /\ \E results \in MaterialReplies(h[s].sent.url) :
        LET r == h[s] IN
        IF ~results.ok
        THEN h' = [h EXCEPT ![s] =
                [r EXCEPT !.pc = "next",
                          !.replies = Append(r.replies, results),
                          !.errs = Append(r.errs, CatchError(results))]]
        ELSE IF BundlesRedirects(results, r.sent)
        THEN h' = [h EXCEPT ![s] =
                [r EXCEPT !.pc = "done",
                          !.replies = Append(r.replies, results),
                          !.res = Append(r.res,
                              [status |-> 302, location |-> "/api/v1/oer_materials",
                               params |-> r.query])]]
        ELSE LET viewedMaterials == results.hits
                 materialURLs == [i \in 1..Len(viewedMaterials) |->
                                        viewedMaterials[i].material_url]
                 wikiConcepts == BundlesWikiConcepts(viewedMaterials)
                 limit == BundlesLimit(r.sent.limit)
                 page == BundlesPage(r.sent.page)
                 size == limit
                 from == From(page, size)
                 query == BundlesQuery(r.query, limit, page)
             IN  h' = [h EXCEPT ![s] =
                    [r EXCEPT !.pc = "await_es",
                              !.replies = Append(r.replies, results),
                              !.limit = limit, !.page = page,
                              !.size = size, !.from = from,
                              !.query = query,
                              !.filters = BundlesFiltersMust(query),
                              !.materialURLs = materialURLs,
                              !.calls = Append(r.calls,
                                  [to |-> "es", index |-> "oer_materials",
                                   body |-> BundlesBody(query, from, size,
                                               wikiConcepts, materialURLs)])]]

\* the 200 response of /recommend/bundles
BundlesResponse(r, output, totalHits, totalPages) ==
    [ status |-> 200,
      query |-> r.query,
      rec_materials |-> output,
      total_hits |-> totalHits,
      total_pages |-> totalPages,
      prev_page |-> PrevPage(RECOMMEND_BASE_URL, r.query, r.page),
      next_page |-> NextPage(RECOMMEND_BASE_URL, r.query, r.page, totalPages),
      aggregations |-> TRUE ]

\* after the await of the recommendation query
BundlesEsReply(s) ==
    /\ UNCHANGED <<setLanguages, startup, index, load>>
    /\ h[s].pc = "await_es"
    /\ h[s].route = "bundles"
    /\ \E results \in EsReplies :
        LET r == h[s] IN
        IF ~results.ok
        THEN h' = [h EXCEPT ![s] =
                [r EXCEPT !.pc = "next",
                          !.replies = Append(r.replies, results),
                          !.errs = Append(r.errs, CatchError(results))]]
        ELSE LET output == [i \in 1..Len(results.hits) |->
                               materialFormat(results.hits[i], r.sent.wikipedia,
                                   r.sent.wikipedia_limit, FALSE, "")]
                 totalHits == results.total
                 totalPages == TotalPages(results.total, r.size)
             IN  h' = [h EXCEPT ![s] =
                    [r EXCEPT !.pc = "done",
                              !.replies = Append(r.replies, results),
                              !.res = Append(r.res,
                                  BundlesResponse(r, output, totalHits, totalPages))]]

----------------------------------------------------------------------------
(* POST /oer_materials, PATCH and DELETE /oer_materials/:material_id *)

\* a write request as it reaches its handler
NewWrite(route, material_id, record) ==
    [Idle EXCEPT !.route = route, !.pc = "recv",
                 !.material_id = material_id, !.record = record]

\* the TypeError a normalization step throws inside the try block
TypeError == [ok |-> FALSE, error |-> "TypeError"]

\* the calls of the write handlers to the client library
PushRecord(record) ==
    [ to |-> "es", op |-> "pushRecord", index |-> "oer_materials",
      id |-> record.material_id, record |-> record ]
UpdateCall(material_id, record) ==
    [ to |-> "es", op |-> "updateRecord", index |-> "oer_materials",
      id |-> material_id, record |-> record ]
DeleteCall(material_id) ==
    [ to |-> "es", op |-> "deleteRecord", index |-> "oer_materials",
      id |-> material_id, record |-> Undefined ]
RefreshCall ==
    [ to |-> "es", op |-> "refreshIndex", index |-> "oer_materials",
      id |-> Absent, record |-> Undefined ]

\* the success responses of the write handlers
WriteResponse(r) ==
    IF r.route = "create"
    THEN [ status |-> 200, message |-> "record pushed to the index",
           material_id |-> r.calls[1].record.material_id ]
    ELSE IF r.route = "update"
    THEN [ status |-> 200, message |-> "record updated in the index",
           material_id |-> Absent ]
    ELSE [ status |-> 200, message |-> "record deleted in the index",
           material_id |-> Absent ]

\* AfterWrite that issues the refresh whatever the write returned
AfterWrite_NoAwait(r, reply) ==
    [r EXCEPT !.pc = "await_refresh",
              !.replies = Append(r.replies, reply),
              !.calls = Append(r.calls, RefreshCall)]

\* await es.<write>(...); await es.refreshIndex("oer_materials");
\* the handler after the await of its write: a rejected write goes to the
\* catch block, a completed one issues the refresh
AfterWrite(r, reply) ==
    IF reply.ok
    THEN [r EXCEPT !.pc = "await_refresh",
                   !.replies = Append(r.replies, reply),
                   !.calls = Append(r.calls, RefreshCall)]
    ELSE [r EXCEPT !.pc = "next",
                   !.replies = Append(r.replies, reply),
                   !.errs = Append(r.errs, CatchError(reply))]

\* await es.refreshIndex(...); return res.status(200).json(...)
AfterRefresh(r, reply) ==
    IF reply.ok
    THEN [r EXCEPT !.pc = "done",
                   !.replies = Append(r.replies, reply),
                   !.res = Append(r.res, WriteResponse(r))]
    ELSE [r EXCEPT !.pc = "next",
                   !.replies = Append(r.replies, reply),
                   !.errs = Append(r.errs, CatchError(reply))]

\* the engine answers the write of slot s, and the handler resumes
WriteReply(s, route) ==
    /\ UNCHANGED <<setLanguages, startup, load>>
    /\ h[s].pc = "await_write"
    /\ h[s].route = route
    /\ LET call == h[s].calls[Len(h[s].calls)] IN
       \E reply \in WriteReplies(call, index) :
          /\ index' = IndexAfter(index, call, reply)
          /\ h' = [h EXCEPT ![s] = AfterWrite(h[s], reply)]

\* the engine answers the refresh of slot s, and the handler resumes
RefreshReply(s, route) ==
    /\ UNCHANGED <<setLanguages, startup, index, load>>
    /\ h[s].pc = "await_refresh"
    /\ h[s].route = route
    /\ \E reply \in RefreshReplies :
          h' = [h EXCEPT ![s] = AfterRefresh(h[s], reply)]

\* POST /oer_materials from the receipt of the request to its first await
CreateReceive(s) ==
    /\ UNCHANGED <<setLanguages, startup, index, load>>
    /\ h[s].pc = "recv"
    /\ h[s].route = "create"
    /\ LET r == h[s] IN
       IF CreateThrows(r.record)
       THEN h' = [h EXCEPT ![s] =
               [r EXCEPT !.pc = "next",
                         !.errs = Append(r.errs, CatchError(TypeError))]]
       ELSE h' = [h EXCEPT ![s] =
               [r EXCEPT !.pc = "await_write",
                         !.calls = Append(r.calls, PushRecord(CreateRecord(r.record)))]]

CreateWriteReply(s) == WriteReply(s, "create")
CreateRefreshReply(s) == RefreshReply(s, "create")

\* if (!material_id): NaN and 0 are falsy
UpdateMissingId(material_id) == Falsy(material_id)

\* PATCH /oer_materials/:material_id up to its first await
UpdateReceive(s) ==
    /\ UNCHANGED <<setLanguages, startup, index, load>>
    /\ h[s].pc = "recv"
    /\ h[s].route = "update"
    /\ LET r == h[s] IN
       IF UpdateMissingId(r.material_id)
       THEN h' = [h EXCEPT ![s] =
               [r EXCEPT !.pc = "done",
                         !.res = Append(r.res,
                             BadRequest("body parameter material_id not an integer",
                                        [material_id |-> r.material_id]))]]
       ELSE IF UpdateThrows(r.record)
       THEN h' = [h EXCEPT ![s] =
               [r EXCEPT !.pc = "next",
                         !.errs = Append(r.errs, CatchError(TypeError))]]
       ELSE h' = [h EXCEPT ![s] =
               [r EXCEPT !.pc = "await_write",
                         !.calls = Append(r.calls,
                             UpdateCall(r.material_id, UpdateRecord(r.record)))]]

UpdateWriteReply(s) == WriteReply(s, "update")
UpdateRefreshReply(s) == RefreshReply(s, "update")

\* DELETE /oer_materials/:material_id up to its first await
DeleteReceive(s) ==
    /\ UNCHANGED <<setLanguages, startup, index, load>>
    /\ h[s].pc = "recv"
    /\ h[s].route = "delete"
    /\ h' = [h EXCEPT ![s] =
            [h[s] EXCEPT !.pc = "await_write",
                         !.calls = Append(h[s].calls, DeleteCall(h[s].material_id))]]

DeleteWriteReply(s) == WriteReply(s, "delete")
DeleteRefreshReply(s) == RefreshReply(s, "delete")

----------------------------------------------------------------------------
(* Error middleware *)

\* handleError(error, response)
handleError(error) ==
    [ status |-> error.statusCode,
      body_status |-> "error",
      statusCode |-> error.statusCode,
      message |-> error.message ]

\* app.use((err, req, res, next) => handleError(err, res))
ErrorMiddleware(s) ==
    /\ UNCHANGED <<setLanguages, startup, index, load>>
    /\ h[s].pc = "next"
    /\ h' = [h EXCEPT ![s] =
            [h[s] EXCEPT !.pc = "done",
                         !.res = Append(h[s].res, handleError(h[s].errs[Len(h[s].errs)]))]]

----------------------------------------------------------------------------
(* Bulk load script: populate() *)

\* the script at rest, in the specifications of the server
LoadOff ==
    [ pc |-> "off", input |-> <<>>, batches |-> <<>>, tasks |-> <<>>,
      count |-> 0, calls |-> <<>>, replies |-> <<>> ]

\* rows of the pg_command result: a material with or without material_id
Rows ==
    { [BaseRecord EXCEPT !.material_id = m] : m \in {Num(1), Num(2), Absent} }

\* the batches pg.executeLarge hands to the batch callback, in order
Batches == UNION { [1..n -> Rows] : n \in 1..MaxBatchRows }

BulkLoads == SeqsUpTo(Batches, MaxBatches)

\* populate() is called on the given result of pg_command
NewLoad(batches) ==
    [LoadOff EXCEPT !.pc = "start", !.input = batches, !.batches = batches]

\* one answer of the engine or of pg, as the script sees it
Answer(op, ok) == [op |-> op, ok |-> ok]

\* the body of `for (let record of records)` up to tasks.push: the rows
\* with a material_id, each normalized as in POST /oer_materials
RECURSIVE BulkTasks(_)
BulkTasks(records) ==
    IF records = <<>> THEN <<>>
    ELSE IF Falsy(Head(records).material_id)
         THEN BulkTasks(Tail(records))
         ELSE <<CreateRecord(Head(records))>> \o BulkTasks(Tail(records))

\* await es.deleteIndex(...); await es.createIndex(...): a rejection leaves
\* populate() through populate().catch
PopulateReset ==
    /\ UNCHANGED <<h, setLanguages, startup>>
    /\ load.pc = "start"
    /\ \/ /\ index' = [i \in {} |-> Undefined]
          /\ load' = [load EXCEPT !.pc = "reading",
                                  !.replies = Append(load.replies, Answer("createIndex", TRUE))]
       \/ /\ UNCHANGED index
          /\ load' = [load EXCEPT !.pc = "rejected",
                                  !.replies = Append(load.replies, Answer("createIndex", FALSE))]

\* the task of one record after its es.pushRecord has settled:
\*   .then((results) => { count++; xcallback(null); })
\*   .catch((error) => xcallback);
\* the catch handler returns xcallback without calling it, so async.series
\* is never told that the task has ended
BulkTaskSettled(l, reply) ==
    LET answered == [l EXCEPT !.replies = Append(l.replies, Answer("pushRecord", reply.ok))]
    IN  IF ~reply.ok
        THEN [answered EXCEPT !.pc = "stalled"]
        ELSE IF Len(l.tasks) > 1
        THEN [answered EXCEPT !.count = l.count + 1,
                              !.tasks = Tail(l.tasks),
                              !.calls = Append(l.calls, PushRecord(l.tasks[2]))]
        ELSE [answered EXCEPT !.count = l.count + 1,
                              !.tasks = <<>>,
                              !.pc = "reading"]

\* the batch callback of pg.executeLarge: on an error it logs and returns
\* without calling callback; else it builds the tasks and starts async.series,
\* which calls back at once when there is no task
BulkBatch ==
    /\ UNCHANGED <<h, setLanguages, startup, index>>
    /\ load.pc = "reading"
    /\ load.batches # <<>>
    /\ \/ load' = [load EXCEPT !.pc = "stalled",
                               !.replies = Append(load.replies, Answer("executeLarge", FALSE))]
       \/ LET tasks == BulkTasks(Head(load.batches))
              read == [load EXCEPT !.batches = Tail(load.batches),
                                   !.replies = Append(load.replies, Answer("executeLarge", TRUE))]
          IN  load' = IF tasks = <<>>
                      THEN read
                      ELSE [read EXCEPT !.pc = "await_push",
                                        !.tasks = tasks,
                                        !.calls = Append(load.calls, PushRecord(tasks[1]))]

\* the engine answers the pushRecord of the running task
BulkPushReply ==
    /\ UNCHANGED <<h, setLanguages, startup>>
    /\ load.pc = "await_push"
    /\ LET call == load.calls[Len(load.calls)] IN
       \E reply \in WriteReplies(call, index) :
          /\ index' = IndexAfter(index, call, reply)
          /\ load' = BulkTaskSettled(load, reply)

\* the end callback of pg.executeLarge: pg.close(), then reject(error) or
\* resolve(); after `await promise` the script awaits es.refreshIndex
BulkEnd ==
    /\ UNCHANGED <<h, setLanguages, startup, index>>
    /\ load.pc = "reading"
    /\ load.batches = <<>>
    /\ \/ load' = [load EXCEPT !.pc = "rejected",
                               !.replies = Append(load.replies, Answer("executeLarge", FALSE))]
       \/ load' = [load EXCEPT !.pc = "await_refresh",
                               !.calls = Append(load.calls, RefreshCall)]

\* await es.refreshIndex("oer_materials"); console.log("done")
BulkRefreshReply ==
    /\ UNCHANGED <<h, setLanguages, startup, index>>
    /\ load.pc = "await_refresh"
    /\ \E reply \in RefreshReplies :
          load' = [load EXCEPT !.pc = IF reply.ok THEN "done" ELSE "rejected",
                               !.replies = Append(load.replies,
                                                  Answer("refreshIndex", reply.ok))]

----------------------------------------------------------------------------
(* Specification *)

\* requests to GET /recommend/materials: a reference url with every
\* parameter variation, and every text/url combination
RecommendQueries ==
    { [q EXCEPT !.url = "u1"] :
        q \in { p \in PagQueries : p.text = "ml" /\ p.types = <<>> }
              \cup { f \in FilterQueries : f.sort_by = "" }
              \cup { f \in FormatQueries : f.content_extension = "" } }
    \cup { [DefaultQuery EXCEPT !.text = t, !.url = u, !.limit = l, !.page = p] :
            t \in {"", "ml"}, u \in {"", "u1"},
            l \in {Absent, Num(0), Num(5), Num(MAX_LIMIT)},
            p \in {Absent, Num(0), Num(2)} }

\* the write requests: a record to create, an id and a record to update, an
\* id to delete
WriteRequests ==
    { NewWrite("create", Absent, rec) : rec \in Records }
    \cup { NewWrite("update", id, rec) : id \in MaterialIds, rec \in Records }
    \cup { NewWrite("delete", id, Undefined) : id \in MaterialIds }

\* requests to GET /recommend/bundles
BundleQueries ==
    { [DefaultQuery EXCEPT !.text = t, !.url = u, !.limit = l, !.page = p] :
        t \in {"", "ml"}, u \in {"", "u1"},
        l \in {Absent, Num(5), Num(MAX_LIMIT)},
        p \in {Absent, Num(2)} }

Requests ==
    { NewRequest("search", q) : q \in SearchQueries }
    \cup { NewRequest("recommend", q) : q \in RecommendQueries }
    \cup { NewRequest("bundles", q) : q \in BundleQueries }
    \cup WriteRequests

Init ==
    /\ \E r \in Requests : h = [s \in Slots |-> IF s = 1 THEN r ELSE Idle]
    /\ setLanguages = <<>>
    /\ startup = "pending"
    /\ index = InitialIndex
    /\ load = LoadOff

Next ==
    \/ \E s \in Slots :
        \/ SearchReceive(s)
        \/ SearchImageReply(s)
        \/ SearchEsReply(s)
        \/ RecommendReceive(s)
        \/ RecommendLookupReply(s)
        \/ RecommendEsReply(s)
        \/ BundlesReceive(s)
        \/ BundlesLookupReply(s)
        \/ BundlesEsReply(s)
        \/ CreateReceive(s)
        \/ CreateWriteReply(s)
        \/ CreateRefreshReply(s)
        \/ UpdateReceive(s)
        \/ UpdateWriteReply(s)
        \/ UpdateRefreshReply(s)
        \/ DeleteReceive(s)
        \/ DeleteWriteReply(s)
        \/ DeleteRefreshReply(s)
        \/ ErrorMiddleware(s)
    \/ StartupReply

Spec == Init /\ [][Next]_vars

\* the write handlers alone: one create, update or delete request
WriteInit ==
    /\ \E r \in WriteRequests : h = [s \in Slots |-> IF s = 1 THEN r ELSE Idle]
    /\ setLanguages = <<>>
    /\ startup = "pending"
    /\ index = InitialIndex
    /\ load = LoadOff

WriteNext ==
    \E s \in Slots :
        \/ CreateReceive(s)
        \/ CreateWriteReply(s)
        \/ CreateRefreshReply(s)
        \/ UpdateReceive(s)
        \/ UpdateWriteReply(s)
        \/ UpdateRefreshReply(s)
        \/ DeleteReceive(s)
        \/ DeleteWriteReply(s)
        \/ DeleteRefreshReply(s)
        \/ ErrorMiddleware(s)

WriteSpec == WriteInit /\ [][WriteNext]_vars

\* requests to the two recommendation routes that vary the display
\* parameters and the reference url
ExtractQueries ==
    { [q EXCEPT !.url = "u1"] :
        q \in { f \in FormatQueries :
                  f.content_extension = "" /\ f.content_languages = <<>> } }
    \cup { [DefaultQuery EXCEPT !.text = t, !.url = u] :
            t \in {"", "ml"}, u \in {"", "u1", "u2", "u3", "u4"} }

ReadRequests ==
    { NewRequest("search", q) : q \in FormatQueries }
    \cup { NewRequest("recommend", q) : q \in ExtractQueries }
    \cup { NewRequest("bundles", q) : q \in ExtractQueries }

\* the read handlers of the primary index alone, next to the startup query
ReadInit ==
    /\ \E r \in ReadRequests : h = [s \in Slots |-> IF s = 1 THEN r ELSE Idle]
    /\ setLanguages = <<>>
    /\ startup = "pending"
    /\ index = InitialIndex
    /\ load = LoadOff

ReadNext ==
    \/ \E s \in Slots :
        \/ SearchReceive(s)
        \/ SearchEsReply(s)
        \/ RecommendReceive(s)
        \/ RecommendLookupReply(s)
        \/ RecommendEsReply(s)
        \/ BundlesReceive(s)
        \/ BundlesLookupReply(s)
        \/ BundlesEsReply(s)
        \/ ErrorMiddleware(s)
    \/ StartupReply

ReadSpec == ReadInit /\ [][ReadNext]_vars

\* two requests in flight at once: their handlers interleave at every await
PairRequests ==
    { NewRequest("search", DefaultQuery),
      NewRequest("search", [DefaultQuery EXCEPT !.text = ""]),
      NewRequest("search", [DefaultQuery EXCEPT !.types = <<"image">>,
                                                !.limit = Num(5), !.page = Num(2)]),
      NewRequest("recommend", [DefaultQuery EXCEPT !.url = "u1", !.wikipedia = TRUE,
                                                   !.limit = Num(5)]),
      NewRequest("bundles", [DefaultQuery EXCEPT !.text = "", !.url = "u3"]) }

ConcurrentInit ==
    /\ h \in [Slots -> PairRequests]
    /\ setLanguages = <<>>
    /\ startup = "pending"
    /\ index = InitialIndex
    /\ load = LoadOff

ConcurrentNext ==
    \/ \E s \in Slots :
        \/ SearchReceive(s)
        \/ SearchImageReply(s)
        \/ SearchEsReply(s)
        \/ RecommendReceive(s)
        \/ RecommendLookupReply(s)
        \/ RecommendEsReply(s)
        \/ BundlesReceive(s)
        \/ BundlesLookupReply(s)
        \/ BundlesEsReply(s)
        \/ ErrorMiddleware(s)
    \/ StartupReply

ConcurrentSpec == ConcurrentInit /\ [][ConcurrentNext]_vars

\* the bulk load script alone, run against the index
BulkInit ==
    /\ h = [s \in Slots |-> Idle]
    /\ setLanguages = <<>>
    /\ startup = "pending"
    /\ index = InitialIndex
    /\ \E batches \in BulkLoads : load = NewLoad(batches)

BulkNext ==
    \/ PopulateReset
    \/ BulkBatch
    \/ BulkPushReply
    \/ BulkEnd
    \/ BulkRefreshReply

BulkSpec == BulkInit /\ [][BulkNext]_vars

\* every pending callback of the script is run and every call to the
\* engine or to pg is answered
BulkFairSpec == BulkSpec /\ WF_vars(BulkNext)

----------------------------------------------------------------------------
(* Properties *)

\* the search handler has planned its pagination and issued its backend call
SearchPlanned(s) ==
    h[s].route = "search" /\ h[s].pc # "recv" /\ Len(h[s].calls) = 1

\* the recommendation handler has issued its recommendation query
RecommendPlanned(s) ==
    h[s].route = "recommend" /\ Len(h[s].calls) = 2

Planned(s) == SearchPlanned(s) \/ RecommendPlanned(s)

\* the call that carries the request's compiled query
QueryCall(s) == h[s].calls[Len(h[s].calls)]

\* the page size that call asks its backend for
CallSize(c) == IF c.to = "cc" THEN c.page_size ELSE c.body.size

\* the request was answered with a 200 response
Ok200(s) ==
    Planned(s) /\ h[s].pc = "done" /\ Len(h[s].res) = 1 /\ h[s].res[1].status = 200

\* C1: in GET /oer_materials an absent, NaN, zero, negative or >= 100 limit
\* gives the effective limit 20, a limit in 1..99 is kept, and the effective
\* limit, which is the page size asked of the backend, is always in 1..99.
C1_SearchLimit ==
    \A s \in Slots : SearchPlanned(s) =>
        LET l == h[s].sent.limit
            out == l.k # "int" \/ l.v <= 0 \/ l.v >= 100
        IN  /\ out => h[s].limit = 20
            /\ ~out => h[s].limit = l.v
            /\ h[s].limit \in 1..99
            /\ CallSize(QueryCall(s)) = h[s].limit

C1_Witness ==
    \E s \in Slots :
        /\ SearchPlanned(s)
        /\ h[s].sent.limit = Num(100)
        /\ h[s].limit = 20
        /\ CallSize(QueryCall(s)) = 20

\* C2: in GET /recommend/materials an absent, <= 0 or >= 100 limit becomes
\* 20, a limit in 1..99 is kept, and the size sent to the index engine is
\* never above 99.  (recommend.js clamps a limit >= 100 to MAX_LIMIT.)
C2_Original ==
    \A s \in Slots : RecommendPlanned(s) =>
        LET l == h[s].sent.limit
            out == l.k # "int" \/ l.v <= 0 \/ l.v >= 100
        IN  /\ out => h[s].limit = 20
            /\ ~out => h[s].limit = l.v
            /\ QueryCall(s).body.size <= 99

\* C3: the effective page is p for p >= 1 and 1 for an absent page or
\* p <= 0, the query has size = effective limit and
\* from = (effective page - 1) * size, and from is never negative.
\* (Both handlers keep a negative page.)
C3_Original ==
    \A s \in Slots : Planned(s) =>
        LET p == h[s].sent.page IN
        /\ h[s].page = IF p.k = "int" /\ p.v >= 1 THEN p.v ELSE 1
        /\ h[s].size = h[s].limit
        /\ h[s].from = (h[s].page - 1) * h[s].size
        /\ QueryCall(s).to = "es" =>
              /\ QueryCall(s).body.size = h[s].size
              /\ QueryCall(s).body.from = h[s].from
        /\ h[s].from >= 0

\* C4: in every 200 response of a search or recommendation, prev_page is
\* non-null exactly when effective page - 1 > 0 (null on page 1) and
\* next_page is non-null exactly when total_pages >= page + 1.
C4_PageLinks ==
    \A s \in Slots : Ok200(s) =>
        LET r == h[s].res[1] IN
        /\ (r.prev_page.k # "null") <=> (h[s].page - 1 > 0)
        /\ (r.next_page.k # "null") <=> (r.total_pages >= h[s].page + 1)
        /\ h[s].page = 1 => r.prev_page.k = "null"
        /\ h[s].page >= r.total_pages => r.next_page.k = "null"

C4_Witness ==
    \E s \in Slots :
        /\ Ok200(s)
        /\ h[s].page = 2
        /\ h[s].res[1].prev_page.k # "null"
        /\ h[s].res[1].next_page.k # "null"

\* C5: in every 200 response answered by the primary index, total_hits is
\* the engine's total-hit count and total_pages = ceil(total_hits / size):
\* 0 when total_hits = 0, else
\* (total_pages - 1) * size < total_hits <= total_pages * size.
C5_TotalPages ==
    \A s \in Slots : (Ok200(s) /\ QueryCall(s).to = "es") =>
        LET r == h[s].res[1]
            reply == h[s].replies[Len(h[s].replies)]
            size == QueryCall(s).body.size
        IN  /\ r.total_hits = reply.total
            /\ size = h[s].limit
            /\ IF r.total_hits = 0
               THEN r.total_pages = 0
               ELSE /\ (r.total_pages - 1) * size < r.total_hits
                    /\ r.total_hits <= r.total_pages * size

C5_Witness ==
    \E s \in Slots :
        /\ Ok200(s)
        /\ QueryCall(s).to = "es"
        /\ h[s].res[1].total_hits % QueryCall(s).body.size # 0
        /\ h[s].res[1].total_pages >= 2

\* C6: in every 200 response the limit and page echoed under `query` are the
\* effective values from which the size and from of the request's backend
\* call were computed.
C6_EchoEffective ==
    \A s \in Slots : Ok200(s) =>
        LET r == h[s].res[1]
            c == QueryCall(s)
        IN  /\ r.query.limit = Num(h[s].limit)
            /\ r.query.page = Num(h[s].page)
            /\ CallSize(c) = r.query.limit.v
            /\ c.to = "es" => c.body.from = (r.query.page.v - 1) * c.body.size
            /\ c.to = "cc" => c.page = r.query.page.v

C6_Witness ==
    \E s \in Slots :
        /\ Ok200(s)
        /\ h[s].route = "recommend"
        /\ h[s].sent.limit = Num(0)
        /\ h[s].sent.page = Absent
        /\ h[s].res[1].query.limit = Num(20)
        /\ h[s].res[1].query.page = Num(1)

\* C7: a search request with empty text gets a 400 with the echoed query, a
\* recommendation request gets a 400 exactly when text and url are both
\* empty, and a request answered so has made no external call.
C7_MissingParams ==
    \A s \in Slots :
      (h[s].route \in {"search", "recommend"} /\ h[s].pc \notin {"recv", "off"}) =>
        LET empty == IF h[s].route = "search"
                     THEN h[s].sent.text = ""
                     ELSE h[s].sent.text = "" /\ h[s].sent.url = ""
        IN  /\ empty =>
                /\ h[s].pc = "done"
                /\ Len(h[s].res) = 1
                /\ h[s].res[1].status = 400
                /\ h[s].res[1].query = h[s].sent
                /\ h[s].calls = <<>>
            /\ ~empty =>
                /\ \A i \in 1..Len(h[s].res) : h[s].res[i].status # 400
                /\ Len(h[s].calls) >= 1

C7_Witness ==
    \E s \in Slots :
        /\ h[s].route = "recommend"
        /\ h[s].sent.text = "" /\ h[s].sent.url = ""
        /\ h[s].pc = "done"
        /\ h[s].res[1].status = 400
        /\ h[s].calls = <<>>

\* C8: once a backend call of a request has failed, the handler makes no
\* further external call, sends no success response, and hands exactly one
\* error, with status 500 and the message "Internal server error", to the
\* error middleware, whatever the upstream error was.
C8_UpstreamFailure ==
    \A s \in Slots :
        (Len(h[s].replies) > 0 /\ ~h[s].replies[Len(h[s].replies)].ok) =>
            /\ Len(h[s].calls) = Len(h[s].replies)
            /\ h[s].errs = << [statusCode |-> 500, message |-> "Internal server error"] >>
            /\ h[s].pc \in {"next", "done"}
            /\ \A i \in 1..Len(h[s].res) : h[s].res[i].status = 500
            /\ h[s].pc = "done" =>
                  /\ Len(h[s].res) = 1
                  /\ h[s].res[1].message = "Internal server error"

C8_Witness ==
    \E s \in Slots :
        /\ h[s].route = "search"
        /\ Len(h[s].replies) = 1
        /\ ~h[s].replies[1].ok
        /\ h[s].replies[1].error = "parsing_exception"
        /\ h[s].pc = "done"
        /\ h[s].res[1].status = 500

\* C9: for a non-empty license filter set the compiled filter has exactly
\* one license clause: terms on license.short_name with the given set when
\* the set has no "cc", exists on license.url when it has; a set with "cc" is
\* never a terms clause, and the two clauses never occur together.
C9_LicenseClause ==
    \A s \in Slots :
        (Planned(s) /\ QueryCall(s).to = "es" /\ h[s].sent.licenses # <<>>) =>
            LET f == QueryCall(s).body.filter
                licenses == h[s].sent.licenses
                onName == {i \in 1..Len(f) : f[i].field = "license.short_name"}
                onUrl == {i \in 1..Len(f) : f[i].field = "license.url"}
            IN  /\ Cardinality(onName) + Cardinality(onUrl) = 1
                /\ \A i \in onName :
                      /\ f[i].op = "terms"
                      /\ f[i].value = licenses
                      /\ ~Includes(licenses, "cc")
                /\ \A i \in onUrl :
                      /\ f[i].op = "exists"
                      /\ Includes(licenses, "cc")

C9_Witness ==
    \E s \in Slots :
        /\ Planned(s)
        /\ QueryCall(s).to = "es"
        /\ h[s].sent.licenses = <<"by", "cc">>
        /\ \E i \in 1..Len(QueryCall(s).body.filter) :
              QueryCall(s).body.filter[i] = Exists("license.url")

\* C10 as stated: every search request queries exactly one backend exactly
\* once, the image provider for the "image" group and the primary index for
\* every other type.
C10_Original ==
    \A s \in Slots : (h[s].route = "search" /\ h[s].pc = "done") =>
        /\ Len(h[s].calls) = 1
        /\ h[s].calls[1].to = IF h[s].sent.types = <<"image">> THEN "cc" ELSE "es"

\* C10 amended: every search request with a non-empty text queries exactly
\* one backend exactly once, the image provider (and never the primary
\* index) for the "image" group and the primary index (and never the image
\* provider) for every other type.
C10_OneBackend ==
    \A s \in Slots :
        (h[s].route = "search" /\ h[s].pc # "recv" /\ h[s].sent.text # "") =>
            /\ Len(h[s].calls) = 1
            /\ h[s].calls[1].to = IF h[s].sent.types = <<"image">> THEN "cc" ELSE "es"

C10_Witness ==
    \E s \in Slots :
        /\ h[s].route = "search"
        /\ h[s].pc = "done"
        /\ h[s].sent.types = <<"image">>
        /\ h[s].calls = << FetchImagesQuery(h[s].sent.text, h[s].limit, h[s].page,
                                            h[s].sent.licenses) >>
        /\ h[s].res[1].status = 200

\* C11: the license list forwarded to the image provider is the request's
\* license list with every "cc" entry removed and the order of the other
\* entries kept, joined with commas; it never contains "cc"; without a
\* license list no license parameter is forwarded.
C11_ForwardedLicenses ==
    \A s \in Slots : \A i \in 1..Len(h[s].calls) :
        LET c == h[s].calls[i]
            licenses == h[s].sent.licenses
            kept == SelectSeq(licenses, LAMBDA l : l # "cc")
        IN  c.to = "cc" =>
              IF licenses = <<>> THEN c.license.k = "undefined"
              ELSE /\ c.license.k = "str"
                   /\ \A j \in 1..Len(c.license.v) : c.license.v[j] # "cc"
                   /\ Len(c.license.v) = IF kept = <<>> THEN 0 ELSE 2 * Len(kept) - 1
                   /\ \A j \in 1..Len(kept) : c.license.v[2 * j - 1] = kept[j]
                   /\ \A j \in 1..(Len(kept) - 1) : c.license.v[2 * j] = ","

C11_Witness ==
    \E s \in Slots :
        /\ h[s].sent.licenses = <<"cc", "by">>
        /\ Len(h[s].calls) = 1
        /\ h[s].calls[1].to = "cc"
        /\ h[s].calls[1].license = Str(<<"by">>)

\* the request of slot s is a create, update or delete
IsWrite(s) == h[s].route \in {"create", "update", "delete"}

\* the calls of slot s that refresh the index
RefreshCalls(s) == {i \in 1..Len(h[s].calls) : h[s].calls[i].op = "refreshIndex"}

\* C12: a create, update or delete handler sends its success response only
\* after its write call has completed successfully and the refresh issued
\* after it has completed; the refresh is issued only once the write has
\* completed, and not at all when the write failed.
C12_RefreshAfterWrite ==
    \A s \in Slots : IsWrite(s) =>
        LET r == h[s] IN
        /\ (\E i \in 1..Len(r.res) : r.res[i].status = 200) =>
              /\ Len(r.res) = 1
              /\ Len(r.calls) = 2 /\ Len(r.replies) = 2
              /\ r.calls[1].op \in {"pushRecord", "updateRecord", "deleteRecord"}
              /\ r.calls[2].op = "refreshIndex"
              /\ r.replies[1].ok /\ r.replies[2].ok
        /\ \A i \in RefreshCalls(s) :
              /\ i = 2
              /\ Len(r.replies) >= 1
              /\ r.replies[1].ok
        /\ (Len(r.replies) >= 1 /\ ~r.replies[1].ok) => RefreshCalls(s) = {}

C12_Witness ==
    \E s \in Slots :
        /\ h[s].route = "delete"
        /\ h[s].pc = "done"
        /\ h[s].calls = <<DeleteCall(Num(1)), RefreshCall>>
        /\ h[s].replies[1].ok /\ h[s].replies[2].ok
        /\ h[s].res = << [status |-> 200, message |-> "record deleted in the index",
                          material_id |-> Absent] >>
        /\ DOMAIN index = {}

\* C13: an update or delete request whose material id names no document of
\* the index is answered with a client error (4xx) that names the missing
\* identifier, not with a success and not with the generic internal error.
\* Stated for a well-formed request (an id >= 1, a record the handler can
\* normalize) while the index engine is reachable.  (The handlers look
\* nothing up: the write call is issued and its outcome becomes the 500 of
\* the catch block or the 200.)
C13_Original ==
    \A s \in Slots :
        ( /\ h[s].route \in {"update", "delete"}
          /\ h[s].material_id.k = "int" /\ h[s].material_id.v >= 1
          /\ h[s].material_id \notin DOMAIN InitialIndex
          /\ h[s].route = "update" => ~UpdateThrows(h[s].record)
          /\ \A i \in 1..Len(h[s].replies) :
                h[s].replies[i].ok \/ h[s].replies[i].error = "not_found"
          /\ h[s].pc = "done" ) =>
            /\ Len(h[s].res) = 1
            /\ h[s].res[1].status \in 400..499
            /\ h[s].res[1].query.material_id = h[s].material_id

\* the license url of a create request does not have the path shape
\* /licen[sc]es/<code>/
BadLicense(s) ==
    /\ h[s].route = "create"
    /\ h[s].record.k = "record"
    /\ h[s].record.license.k = "str"
    /\ h[s].record.license.v \in MismatchingUrls

\* C14: a create request whose record carries a license url that does not
\* match the /licen[sc]es/<code>/ shape fails as a whole: nothing is handed
\* to the index (no write, no refresh, the index unchanged) and the request
\* ends with the 500 "Internal server error".
C14_MalformedLicense ==
    \A s \in Slots : (BadLicense(s) /\ h[s].pc # "recv") =>
        /\ h[s].calls = <<>>
        /\ index = InitialIndex
        /\ h[s].pc \in {"next", "done"}
        /\ h[s].errs = << [statusCode |-> 500, message |-> "Internal server error"] >>
        /\ h[s].pc = "done" =>
              /\ Len(h[s].res) = 1
              /\ h[s].res[1].status = 500
              /\ h[s].res[1].message = "Internal server error"

C14_Witness ==
    \E s \in Slots :
        /\ BadLicense(s)
        /\ h[s].record.license.v = UrlCapital
        /\ h[s].pc = "done"
        /\ h[s].calls = <<>>
        /\ h[s].res[1].status = 500

\* the record of a call is normalized: the license is the object
\* {short_name, typed_name, disclaimer, url} and every wikipedia entry has
\* the renamed fields and none of the camel-case ones
NormalizedRecord(record) ==
    /\ record.license.k = "license"
    /\ {"short_name", "typed_name", "disclaimer", "url"} \subseteq DOMAIN record.license
    /\ \A i \in 1..Len(record.wikipedia.v) :
          LET value == record.wikipedia.v[i] IN
          /\ {"sec_uri", "sec_name", "pagerank", "db_pedia_iri", "support",
              "wiki_data_classes"} \subseteq DOMAIN value
          /\ {"secUri", "secName", "pageRank", "dbPediaIri", "supportLen",
              "wikiDataClasses"} \cap DOMAIN value = {}

\* C15: every record handed to the index by the create handler or by the
\* update handler has had both normalizations applied: the license object
\* and the renamed wikipedia fields.  (The update handler renames the
\* wikipedia fields only and hands the license over as it came.)
C15_Original ==
    \A s \in Slots : \A i \in 1..Len(h[s].calls) :
        h[s].calls[i].op \in {"pushRecord", "updateRecord"} =>
            NormalizedRecord(h[s].calls[i].record)

\* a create request whose record the handler can normalize apart from the
\* license: it has a title and a wikipedia list
WellFormedCreate(s) ==
    /\ h[s].route = "create"
    /\ h[s].record.k = "record"
    /\ h[s].record.title.k = "str"
    /\ h[s].record.wikipedia.k = "arr"

\* the parts joined again with the separator in between
RECURSIVE Glue(_, _)
Glue(parts, sep) ==
    IF parts = <<>> THEN <<>>
    ELSE IF Len(parts) = 1 THEN parts[1]
    ELSE parts[1] \o <<sep>> \o Glue(Tail(parts), sep)

\* the short name and the typed name expected of each matching url
ExpectedLicense ==
    { <<UrlByNcSa, <<"b", "y", "-", "n", "c", "-", "s", "a">>,
        << <<"b", "y">>, <<"n", "c">>, <<"s", "a">> >> >>,
      <<UrlBritish, <<"b", "y">>, << <<"b", "y">> >> >>,
      <<UrlSecond, <<"b", "y", "-", "n", "d">>, << <<"b", "y">>, <<"n", "d">> >> >>,
      <<UrlHyphen, <<"B", "Y", "_", "4", "-">>, << <<"B", "Y", "_", "4">>, <<>> >> >> }

\* C16: for a license url that contains /licenses/<code>/ or
\* /licences/<code>/ the create handler writes a license whose short_name
\* is <code>, the segment up to the next slash, and whose typed_name is the
\* list of the parts of short_name between its hyphens, so that joining
\* typed_name with "-" gives short_name back; by-nc-sa gives [by, nc, sa].
C16_LicenseCode ==
    \A s \in Slots :
        ( /\ WellFormedCreate(s)
          /\ h[s].record.license.k = "str"
          /\ h[s].record.license.v \in MatchingUrls
          /\ h[s].pc # "recv" ) =>
            /\ Len(h[s].calls) >= 1
            /\ h[s].calls[1].op = "pushRecord"
            /\ LET license == h[s].calls[1].record.license
                   url == h[s].record.license.v
               IN  /\ \E e \in ExpectedLicense :
                          /\ e[1] = url
                          /\ license.short_name = e[2]
                          /\ license.typed_name = Arr(e[3])
                   /\ Glue(license.typed_name.v, "-") = license.short_name
                   /\ \A i \in 1..Len(license.typed_name.v) :
                          \A j \in 1..Len(license.typed_name.v[i]) :
                              license.typed_name.v[i][j] # "-"
                   /\ license.url = Str(url)

C16_Witness ==
    \E s \in Slots :
        /\ WellFormedCreate(s)
        /\ h[s].record.license = Str(UrlByNcSa)
        /\ h[s].pc = "done"
        /\ h[s].res[1].status = 200
        /\ h[s].calls[1].record.license.typed_name =
              Arr(<< <<"b", "y">>, <<"n", "c">>, <<"s", "a">> >>)

\* C17: for a record without a license url (absent or empty) the create
\* handler writes a license whose short_name is the fixed no-license text,
\* whose typed_name is unset and whose disclaimer is the fixed
\* default-responsibility text; the record is handed to the index, is in the
\* index once the write has completed, and the request gets its 200 once
\* the write and the refresh have completed.
C17_NoLicense ==
    \A s \in Slots :
        ( /\ WellFormedCreate(s)
          /\ ~(h[s].record.license.k = "str" /\ Len(h[s].record.license.v) > 0)
          /\ h[s].pc # "recv" ) =>
            /\ Len(h[s].calls) >= 1
            /\ h[s].calls[1].op = "pushRecord"
            /\ LET pushed == h[s].calls[1].record
                   id == h[s].record.material_id
               IN  /\ pushed.license.short_name =
                         <<"X5GON recommends the use of the Creative Commons open licenses. During a transitory phase, other licenses, open in spirit, are sometimes used by our partner sites.">>
                   /\ pushed.license.typed_name = Undefined
                   /\ pushed.license.disclaimer =
                         "The usage of the corresponding material is in all cases under the sole responsibility of the user."
                   /\ pushed.license.url = h[s].record.license
                   /\ (Len(h[s].replies) >= 1 /\ h[s].replies[1].ok) =>
                         /\ id \in DOMAIN index
                         /\ index[id] = pushed
                   /\ (Len(h[s].replies) = 2 /\ h[s].replies[1].ok /\ h[s].replies[2].ok) =>
                         /\ h[s].pc = "done"
                         /\ h[s].res = << [status |-> 200,
                                           message |-> "record pushed to the index",
                                           material_id |-> id] >>

C17_Witness ==
    \E s \in Slots :
        /\ WellFormedCreate(s)
        /\ h[s].record.license = Undefined
        /\ h[s].pc = "done"
        /\ h[s].res[1].status = 200
        /\ Num(2) \in DOMAIN index
        /\ index[Num(2)].license.short_name = NO_LICENSE_DISCLAIMER
        /\ index[Num(2)].license.typed_name = Undefined

\* C18: the compiled filter carries at most one type restriction: none when
\* types is absent or "all", a term clause on `type` with the token when
\* types is a group token of the route, and otherwise one regexp clause on
\* material_url with one alternative per comma-separated extension; the two
\* clauses never occur together, and the filter sent to the index is this one.
C18_TypeRestriction ==
    \A s \in Slots : Planned(s) =>
        LET f == h[s].filters
            types == h[s].sent.types
            groups == IF h[s].route = "search"
                      THEN {"text", "video", "audio", "image"}
                      ELSE {"text", "video", "audio"}
            onType == {i \in 1..Len(f) : f[i].field = "type"}
            onUrl == {i \in 1..Len(f) : f[i].field = "material_url"}
        IN  /\ Cardinality(onType) + Cardinality(onUrl) <= 1
            /\ (types = <<>> \/ types = <<"all">>) => (onType = {} /\ onUrl = {})
            /\ (Len(types) = 1 /\ types[1] \in groups) =>
                  /\ onUrl = {}
                  /\ \E i \in onType :
                        f[i] = [op |-> "term", field |-> "type", value |-> types[1]]
            /\ (types # <<>> /\ types # <<"all">>
                  /\ ~(Len(types) = 1 /\ types[1] \in groups)) =>
                  /\ onType = {}
                  /\ \E i \in onUrl :
                        /\ f[i].op = "regexp"
                        /\ Len(f[i].value) = Len(types)
                        /\ \A j \in 1..Len(types) : f[i].value[j] = <<".*.", types[j]>>
            /\ QueryCall(s).to = "es" =>
                  /\ QueryCall(s).body.has_filter <=> (f # <<>> \/ h[s].route = "recommend")
                  /\ QueryCall(s).body.filter = f

C18_Witness ==
    \E s \in Slots :
        /\ SearchPlanned(s)
        /\ h[s].sent.types = <<"pdf", "doc">>
        /\ QueryCall(s).to = "es"
        /\ QueryCall(s).body.filter =
              << [op |-> "regexp", field |-> "material_url",
                  value |-> << <<".*.", "pdf">>, <<".*.", "doc">> >>] >>

\* C19: when the requested content extension is absent or is not one of
\* plain, webvtt, dfxp, the query sent to the index requires in a nested
\* contents clause the extension "plain", together with the content
\* language when content-language filters are given, and excludes the
\* content payload fields.  (The handler builds that clause but puts it in
\* the query only when the extension is a recognised one.)
C19_Original ==
    \A s \in Slots :
        ( /\ SearchPlanned(s)
          /\ QueryCall(s).to = "es"
          /\ h[s].sent.content_extension \notin {"plain", "webvtt", "dfxp"} ) =>
            LET body == QueryCall(s).body
                cl == h[s].sent.content_languages
            IN  /\ body.source_excludes
                /\ body.has_must
                /\ Includes(body.must,
                      [op |-> "term", field |-> "contents.extension", value |-> "plain"])
                /\ cl # <<>> =>
                      Includes(body.must,
                          [op |-> "terms", field |-> "contents.language", value |-> cl])

\* C20: the query sent to the index carries a must clause on the nested
\* contents exactly when the requested content extension is one of plain,
\* webvtt, dfxp; the clause then requires that extension and, when
\* content-language filters are given, the content language; and the
\* _source exclusion of the content payload fields is present exactly when
\* the must clause is absent.
C20_ContentsMust ==
    \A s \in Slots : (Planned(s) /\ QueryCall(s).to = "es") =>
        LET body == QueryCall(s).body
            ce == h[s].sent.content_extension
            cl == h[s].sent.content_languages
            recognised == h[s].route = "search" /\ ce \in {"plain", "webvtt", "dfxp"}
        IN  /\ body.has_must <=> recognised
            /\ body.source_excludes <=> ~body.has_must
            /\ ~recognised => body.must = <<>>
            /\ recognised =>
                  body.must =
                      (IF cl # <<>>
                       THEN << [op |-> "terms", field |-> "contents.language", value |-> cl] >>
                       ELSE <<>>)
                      \o << [op |-> "term", field |-> "contents.extension", value |-> ce] >>

C20_Witness ==
    \E s \in Slots :
        /\ SearchPlanned(s)
        /\ QueryCall(s).to = "es"
        /\ h[s].sent.content_extension = "webvtt"
        /\ h[s].sent.content_languages = <<"en">>
        /\ ~QueryCall(s).body.source_excludes
        /\ QueryCall(s).body.must =
              << [op |-> "terms", field |-> "contents.language", value |-> <<"en">>],
                 [op |-> "term", field |-> "contents.extension", value |-> "webvtt"] >>

\* a read request of the primary index was answered with a list of
\* formatted materials
Formatted(s) ==
    /\ h[s].route \in {"search", "recommend", "bundles"}
    /\ h[s].pc = "done"
    /\ Len(h[s].calls) > 0
    /\ QueryCall(s).to = "es"
    /\ Len(h[s].res) = 1
    /\ h[s].res[1].status = 200

\* the hits the formatted materials were made from
FormattedHits(s) == h[s].replies[Len(h[s].replies)].hits

C22_WikipediaPrefix ==
    \A s \in Slots : Formatted(s) =>
        LET hits == FormattedHits(s)
            out == h[s].res[1].rec_materials
            flag == h[s].sent.wikipedia
            wl == h[s].sent.wikipedia_limit
        IN  \A i \in 1..Len(hits) :
                LET all == hits[i].wikipedia
                    n == IF wl.k = "int" /\ wl.v > 0 /\ wl.v < Len(all)
                         THEN wl.v ELSE Len(all)
                IN  /\ ~flag => out[i].wikipedia = Undefined
                    /\ flag =>
                          /\ out[i].wikipedia.k = "arr"
                          /\ Len(out[i].wikipedia.v) = n
                          /\ \A j \in 1..n : out[i].wikipedia.v[j] = all[j]

C22_Witness ==
    \E s \in Slots :
        /\ Formatted(s)
        /\ h[s].route = "recommend"
        /\ h[s].sent.wikipedia
        /\ h[s].sent.wikipedia_limit = Num(2)
        /\ Len(FormattedHits(s)) = 2
        /\ FormattedHits(s)[1].wikipedia = <<"A", "B", "C">>
        /\ h[s].res[1].rec_materials[1].wikipedia = Arr(<<"A", "B">>)
        /\ h[s].res[1].rec_materials[2].wikipedia = Arr(<<"B", "A">>)

\* a recommendation handler has sent its recommendation query
Recommending(s) ==
    h[s].route \in {"recommend", "bundles"} /\ Len(h[s].calls) = 2

\* the reference materials the lookup by url returned
ReferenceHits(s) == h[s].replies[1].hits

\* C23: every recommendation query sent to the index carries, in its
\* filter, one must_not terms clause on material_url whose values are
\* exactly the material urls of the reference materials the lookup returned,
\* and the collapse directive on website_url.
C23_MustNotViewed ==
    \A s \in Slots : Recommending(s) =>
        LET body == h[s].calls[2].body
            found == ReferenceHits(s)
        IN  /\ body.has_filter
            /\ body.must_not =
                  << [op |-> "terms", field |-> "material_url",
                      value |-> [i \in 1..Len(found) |-> found[i].material_url]] >>
            /\ body.collapse = "website_url"

C23_Witness ==
    \E s \in Slots :
        /\ Recommending(s)
        /\ h[s].route = "bundles"
        /\ Len(ReferenceHits(s)) = 2
        /\ h[s].calls[2].body.must_not =
              << [op |-> "terms", field |-> "material_url", value |-> <<"m3", "m4">>] >>
        /\ h[s].calls[2].body.collapse = "website_url"

\* the places (document, position) among the first 30 concepts of every
\* reference material where the given name stands
Occurrences(found, name) ==
    { <<d, j>> \in (1..Len(found)) \X (1..30) :
        j <= Len(found[d].wikipedia) /\ found[d].wikipedia[j] = name }

\* C24: in each recommendation handler the frequency attached to a concept
\* name is the number of its occurrences among the first 30 concept names
\* of every reference material, and the boost of its should clause is that
\* frequency divided by the number of reference materials.
C24_Original ==
    \A s \in Slots : Recommending(s) =>
        LET should == h[s].calls[2].body.should
            found == ReferenceHits(s)
        IN  \A i \in 1..Len(should) :
                should[i].boost =
                    << Cardinality(Occurrences(found, should[i].query)), Len(found) >>

\* the distinct concept names among the first 30 concepts of every
\* reference material
DistinctNames(found) ==
    { found[d].wikipedia[j] : <<d, j>> \in
        { x \in (1..Len(found)) \X (1..30) : x[2] <= Len(found[x[1]].wikipedia) } }

\* the concept names of the should clauses of a recommendation query
ShouldNames(s) ==
    { h[s].calls[2].body.should[i].query :
        i \in 1..Len(h[s].calls[2].body.should) }

\* C25: in each recommendation handler, when the reference materials yield
\* at least 3 distinct concept names, two names of the highest frequency
\* are left out of the list the query is built from; when they yield fewer
\* than 3, no name is left out.
C25_Original ==
    \A s \in Slots : Recommending(s) =>
        LET found == ReferenceHits(s)
            names == DistinctNames(found)
            used == ShouldNames(s)
        IN  /\ Cardinality(names) < 3 => used = names
            /\ Cardinality(names) >= 3 =>
                  \E a, b \in names \ used :
                      /\ a # b
                      /\ \A x \in used :
                            /\ Cardinality(Occurrences(found, a)) >=
                                  Cardinality(Occurrences(found, x))
                            /\ Cardinality(Occurrences(found, b)) >=
                                  Cardinality(Occurrences(found, x))

\* the first place where a name stands, reading the reference materials in
\* order
FirstSeen(found, name) ==
    CHOOSE p \in Occurrences(found, name) :
        \A q \in Occurrences(found, name) :
            p[1] < q[1] \/ (p[1] = q[1] /\ p[2] <= q[2])

\* the rank of a name: 1 + the number of names that are more frequent, or
\* as frequent and seen earlier
Rank(found, name) ==
    1 + Cardinality(
        { y \in DistinctNames(found) :
            LET cy == Cardinality(Occurrences(found, y))
                cx == Cardinality(Occurrences(found, name))
                py == FirstSeen(found, y)
                px == FirstSeen(found, name)
            IN  \/ cy > cx
                \/ cy = cx /\ (py[1] < px[1] \/ (py[1] = px[1] /\ py[2] < px[2])) })

\* C26: the concept list the query is built from is ranked by descending
\* frequency, ties in first-seen order; with n >= 3 distinct concepts it
\* holds min(20, n - 2) entries, the ranks 3 to 22; with fewer than 3 it
\* holds them all, in rank order.
C26_Original ==
    \A s \in Slots : Recommending(s) =>
        LET should == h[s].calls[2].body.should
            found == ReferenceHits(s)
            n == Cardinality(DistinctNames(found))
        IN  IF n >= 3
            THEN /\ Len(should) = (IF n - 2 < 20 THEN n - 2 ELSE 20)
                 /\ \A i \in 1..Len(should) : Rank(found, should[i].query) = i + 2
            ELSE /\ Len(should) = n
                 /\ \A i \in 1..Len(should) : Rank(found, should[i].query) = i

\* the rows of the load's input that carry a material_id
InputRows ==
    UNION { { <<b, r>> : r \in { k \in 1..Len(load.input[b]) :
                                    LET id == load.input[b][k].material_id
                                    IN  id.k = "int" /\ id.v # 0 } } :
            b \in 1..Len(load.input) }

\* the answers with the given operation and outcome the script has received
Answers(op, ok) ==
    { i \in 1..Len(load.replies) : load.replies[i] = [op |-> op, ok |-> ok] }

\* something other than a record's write has failed
OtherFailure ==
    \E i \in 1..Len(load.replies) :
        ~load.replies[i].ok /\ load.replies[i].op # "pushRecord"

\* the load has gone through the final refresh, and a write was issued for
\* every row with a material_id
LoadFinished ==
    /\ load.pc = "done"
    /\ Cardinality({ i \in 1..Len(load.calls) : load.calls[i].op = "pushRecord" })
          = Cardinality(InputRows)

\* C27: in the bulk load only successful writes are counted, and a failed
\* write of one record does not stop the load: unless something other than
\* a record's write fails, the load eventually has issued the write of
\* every record of every batch, has refreshed the index and has finished.
C27_Original ==
    /\ [](load.count = Cardinality(Answers("pushRecord", TRUE)))
    /\ <>(OtherFailure \/ LoadFinished)

\* the step in which the recommendation handler of slot s reads the
\* language cache (preferedLangs = setLanguages.filter(...))
ReadsCache(s) ==
    /\ h[s].route = "recommend"
    /\ h[s].pc = "await_lookup"
    /\ h'[s].pc = "await_es"

\* C28: the language cache is written only by the answer to the startup
\* aggregation query, and every read of the cache by a recommendation
\* request comes after that write: no request reads the cache while the
\* startup query has not filled it.
C28_Original ==
    [][ /\ setLanguages' # setLanguages => (startup = "pending" /\ startup' = "done")
        /\ \A s \in Slots : ReadsCache(s) => (startup = "done" /\ setLanguages # <<>>)
      ]_vars

\* the 500 response of the error middleware
Failure500 ==
    [ status |-> 500, body_status |-> "error", statusCode |-> 500,
      message |-> "Internal server error" ]

\* the calls the search handler issues for the request of r when it is
\* handled alone
SoloSearchCalls(r) ==
    LET q == r.sent
        limit == SearchLimit(q.limit)
        page == SearchPage(q.page)
    IN  IF q.text = "" THEN <<>>
        ELSE IF Typegroup(q.types, SearchGroups) = "image"
        THEN << FetchImagesQuery(q.text, limit, page, q.licenses) >>
        ELSE << [to |-> "es", index |-> "oer_materials",
                 body |-> EsQuery(SearchQuery(q, limit, page), From(page, limit), limit)] >>

\* the response of the search handler to the request of r and the replies
\* r has received, when it is handled alone
SoloSearchResponse(r) ==
    LET q == r.sent
        limit == SearchLimit(q.limit)
        page == SearchPage(q.page)
        loc == [query |-> SearchQuery(q, limit, page), page |-> page]
        reply == r.replies[1]
    IN  IF q.text = ""
        THEN [status |-> 400, message |-> "query parameter 'text' not available", query |-> q]
        ELSE IF ~reply.ok THEN Failure500
        ELSE IF Typegroup(q.types, SearchGroups) = "image"
        THEN IF \E i \in 1..Len(reply.results) : ImageFormatThrows(reply.results[i])
             THEN Failure500
             ELSE SearchResponse(loc,
                      [i \in 1..Len(reply.results) |-> imageFormat(reply.results[i])],
                      ImageTotalPages(reply.page_count) * CC_PAGE_HITS,
                      ImageTotalPages(reply.page_count), FALSE)
        ELSE IF \E i \in 1..Len(reply.hits) : MaterialFormatThrows(reply.hits[i], GetContent(q))
             THEN Failure500
             ELSE SearchResponse(loc,
                      [i \in 1..Len(reply.hits) |->
                          materialFormat(reply.hits[i], q.wikipedia, q.wikipedia_limit,
                                         GetContent(q), q.content_extension)],
                      reply.total, TotalPages(reply.total, limit), TRUE)

\* the pagination and the echoed query of a recommendation handler
SoloPlan(r) ==
    LET q == r.sent
        limit == IF r.route = "recommend" THEN RecommendLimit(q.limit)
                 ELSE BundlesLimit(q.limit)
        page == IF r.route = "recommend" THEN RecommendPage(q.page)
                ELSE BundlesPage(q.page)
    IN  [ limit |-> limit, page |-> page,
          query |-> IF r.route = "recommend" THEN RecommendQuery(q, limit, page)
                    ELSE BundlesQuery(q, limit, page) ]

\* the lookup of a recommendation handler ends the request: it failed or
\* it redirects
SoloLookupEnds(r) ==
    \/ ~r.replies[1].ok
    \/ r.replies[1].total = 0 /\ r.sent.text # ""

\* the calls a recommendation handler issues for the request of r and the
\* replies r has received, when it is handled alone
SoloRecommendCalls(r) ==
    LET q == r.sent
        plan == SoloPlan(r)
        lookup == [to |-> "es", index |-> "oer_materials",
                   body |-> [size |-> 100, term_website_url |-> q.url]]
    IN  IF q.text = "" /\ q.url = "" THEN <<>>
        ELSE IF r.replies = <<>> \/ SoloLookupEnds(r) THEN <<lookup>>
        ELSE LET found == r.replies[1].hits
                 urls == [i \in 1..Len(found) |-> found[i].material_url]
                 from == From(plan.page, plan.limit)
             IN  << lookup,
                    [to |-> "es", index |-> "oer_materials",
                     body |-> IF r.route = "recommend"
                              THEN RecommendBody(plan.query, from, plan.limit,
                                       RecommendWikiConcepts(found), urls)
                              ELSE BundlesBody(plan.query, from, plan.limit,
                                       BundlesWikiConcepts(found), urls)] >>

\* the response of a recommendation handler, when it is handled alone
SoloRecommendResponse(r) ==
    LET q == r.sent
        plan == SoloPlan(r)
        loc == [query |-> plan.query, page |-> plan.page]
    IN  IF q.text = "" /\ q.url = ""
        THEN [status |-> 400,
              message |-> "query parameter 'text' or 'url' not available", query |-> q]
        ELSE IF ~r.replies[1].ok THEN Failure500
        ELSE IF SoloLookupEnds(r)
        THEN [status |-> 302, location |-> "/api/v1/oer_materials", params |-> q]
        ELSE IF ~r.replies[2].ok THEN Failure500
        ELSE LET reply == r.replies[2]
                 output == [i \in 1..Len(reply.hits) |->
                               materialFormat(reply.hits[i], q.wikipedia,
                                              q.wikipedia_limit, FALSE, "")]
             IN  IF r.route = "recommend"
                 THEN RecommendResponse(loc, output, reply.total,
                                        TotalPages(reply.total, plan.limit))
                 ELSE BundlesResponse(loc, output, reply.total,
                                      TotalPages(reply.total, plan.limit))

SoloCalls(r) ==
    IF r.route = "search" THEN SoloSearchCalls(r) ELSE SoloRecommendCalls(r)

SoloResponse(r) ==
    IF r.route = "search" THEN SoloSearchResponse(r) ELSE SoloRecommendResponse(r)

\* C29: with two search or recommendation requests in flight, interleaved at
\* their awaits and with the startup query, the calls each handler has
\* issued and the response it has sent are those of the same request
\* handled alone with the same replies.
C29_Independent ==
    \A s \in Slots : h[s].route \in {"search", "recommend", "bundles"} =>
        /\ h[s].calls = IF h[s].pc = "recv" THEN <<>> ELSE SoloCalls(h[s])
        /\ h[s].res = IF h[s].pc = "done" THEN <<SoloResponse(h[s])>> ELSE <<>>

C29_Witness ==
    /\ startup = "done"
    /\ h[1].route = "recommend"
    /\ h[1].pc = "await_es"
    /\ Len(h[1].calls) = 2
    /\ h[2].route = "search"
    /\ h[2].pc = "done"
    /\ h[2].res[1].status = 200
    /\ h[2].calls[1].to = "cc"

\* the lookup by url of a recommendation request found no reference
\* material
NothingFound(s) ==
    /\ h[s].route \in {"recommend", "bundles"}
    /\ Len(h[s].replies) >= 1
    /\ h[s].replies[1].ok
    /\ h[s].replies[1].total = 0

\* C30: when the lookup by url finds no reference material and text is not
\* empty, the recommendation handler redirects to the search endpoint with
\* the request's query parameters, sends nothing else and never issues the
\* recommendation query; when the lookup finds none and text is empty, it
\* does not redirect and issues the recommendation query with an empty list
\* of should clauses.
C30_Redirect ==
    \A s \in Slots : NothingFound(s) =>
        IF h[s].sent.text # ""
        THEN /\ h[s].pc = "done"
             /\ h[s].res = << [status |-> 302, location |-> "/api/v1/oer_materials",
                               params |-> h[s].sent] >>
             /\ Len(h[s].calls) = 1
             /\ h[s].errs = <<>>
        ELSE /\ Len(h[s].calls) = 2
             /\ h[s].calls[2].body.should = <<>>
             /\ \A i \in 1..Len(h[s].res) : h[s].res[i].status # 302

C30_Witness ==
    \E s \in Slots :
        /\ NothingFound(s)
        /\ h[s].route = "recommend"
        /\ h[s].sent.text = "ml"
        /\ h[s].sent.url = "u1"
        /\ h[s].res = << [status |-> 302, location |-> "/api/v1/oer_materials",
                          params |-> h[s].sent] >>
        /\ Len(h[s].calls) = 1

=============================================================================
